---------------------------- MODULE Spec2Model ----------------------------
(***************************************************************************)
(* The refresh / indicator engine of the stock analyzer.                   *)
(*                                                                         *)
(* Spec models the web variant (src/app.py): the global stock_data_store,  *)
(* the background_update thread and one /api/refresh request handler that  *)
(* runs refresh_stocks on a thread of its own.  Neither takes a lock, so   *)
(* the two interleave between any two statements; one action of the model  *)
(* is one statement of the merge that touches the shared store.            *)
(*                                                                         *)
(* SpecCrossover applies StockData.macd_crossover to inputs drawn from a   *)
(* bounded set of floats.                                                  *)
(***************************************************************************)
EXTENDS Integers, Sequences, FiniteSets, TLC

\* ------------------------------------------------------------------ bounds

\* Calls of fetch_stock_data in one behaviour, over all cycles of both threads.
MaxFetches == 2

\* Seconds the clock of the backup dashboard runs for.
MaxClock == 6

\* Clicks on the refresh button of the backup dashboard in one behaviour.
MaxClicks == 2

\* Calls of refresh_data of a desktop analyzer in one behaviour, the call of
\* its constructor included.
MaxRefresh == 2

\* Signals the GUI thread of the pooled analyzer receives in one behaviour
\* of the specification of its slots.
MaxSignals == 4

\* ------------------------------------------------------------------ floats

\* A float is an integer (tenths where the source has decimals), or NaN.
\* Every comparison with NaN is false and arithmetic on NaN gives NaN.
NaN == -1000

FloatLe(a, b) == a # NaN /\ b # NaN /\ a <= b
FloatGe(a, b) == a # NaN /\ b # NaN /\ a >= b
FloatLt(a, b) == a # NaN /\ b # NaN /\ a < b
FloatGt(a, b) == a # NaN /\ b # NaN /\ a > b
FloatSub(a, b) == IF a = NaN \/ b = NaN THEN NaN ELSE a - b

\* ----------------------------------------------------------------- symbols

\* A symbol is the sequence of its parts, the exchange suffix being one part:
\* "TCS.NS" is <<"TCS", ".NS">>, "TCS" is <<"TCS">>.
NS == ".NS"

\* ensure_nse_symbol as it would be without the test of the ending.
ensure_nse_symbol_always(symbol) == symbol \o <<NS>>

ensure_nse_symbol(symbol) ==
    IF Len(symbol) > 0 /\ symbol[Len(symbol)] = NS
    THEN symbol
    ELSE symbol \o <<NS>>

\* The first two of the five default symbols.
DEFAULT_STOCKS == << <<"RELIANCE", NS>>, <<"TCS", NS>> >>

\* What the database does when a cycle asks it for the tracked symbols: no
\* connection, an exception in the query, or the rows of the query (none, or
\* one symbol stored without its suffix).
DbOutcomes ==
    { [kind |-> "noconn"], [kind |-> "raise"],
      [kind |-> "rows", rows |-> << >>],
      [kind |-> "rows", rows |-> << <<"TCS">> >>] }

\* `[ensure_nse_symbol(s) for s in ...]`
EnsureAll(s) == [k \in 1..Len(s) |-> ensure_nse_symbol(s[k])]

fetch_stocks_from_db(db) ==
    IF db.kind = "noconn" THEN EnsureAll(DEFAULT_STOCKS)
    ELSE IF db.kind = "raise" THEN EnsureAll(DEFAULT_STOCKS)
    ELSE LET stocks == EnsureAll(db.rows)
         IN  IF stocks # << >> THEN stocks
             ELSE EnsureAll(DEFAULT_STOCKS)

\* ------------------------------------------------------------------- time

\* datetime.now() is [sec, us]; the '%Y-%m-%d %H:%M:%S' text keeps the second.
strftime(dt) == [text |-> dt.sec]
strptime(s) == [sec |-> s.text, us |-> 0]

\* ------------------------------------------------------------- StockData

None == "None"

StockData(symbol, now) ==
    [ symbol      |-> symbol,
      price       |-> 0,
      rsi         |-> 0,
      macd        |-> 0,
      macd_signal |-> 0,
      macd_hist   |-> 0,
      volume      |-> 0,
      timestamp   |-> now,
      prev_macd   |-> 0,
      prev_signal |-> 0,
      error       |-> None ]

Bullish == "Bullish"
Bearish == "Bearish"
Above == "Above"
Below == "Below"
Dash == "-"

\* macd_crossover as it would be with strict comparisons of the previous pair.
macd_crossover_strict(self) ==
    IF FloatLt(self.prev_macd, self.prev_signal)
         /\ FloatGt(self.macd, self.macd_signal) THEN Bullish
    ELSE IF FloatGt(self.prev_macd, self.prev_signal)
         /\ FloatLt(self.macd, self.macd_signal) THEN Bearish
    ELSE IF FloatGt(self.macd, self.macd_signal) THEN Above
    ELSE IF FloatLt(self.macd, self.macd_signal) THEN Below
    ELSE Dash

macd_crossover(self) ==
    IF FloatLe(self.prev_macd, self.prev_signal)
         /\ FloatGt(self.macd, self.macd_signal) THEN Bullish
    ELSE IF FloatGe(self.prev_macd, self.prev_signal)
         /\ FloatLt(self.macd, self.macd_signal) THEN Bearish
    ELSE IF FloatGt(self.macd, self.macd_signal) THEN Above
    ELSE IF FloatLt(self.macd, self.macd_signal) THEN Below
    ELSE Dash

\* ------------------------------------------------------- fetch_stock_data

\* What the market-data source and the indicator library give one fetch: an
\* empty history, an exception, or a history with its latest close, volume,
\* RSI, MACD and signal, read at clock time now.
FetchOutcomes ==
    { [kind |-> "empty"],
      [kind |-> "raise", msg |-> "network"],
      [kind |-> "hist", close |-> 101, volume |-> 11, rsi |-> 71,
       macd |-> 2, signal |-> 1, now |-> [sec |-> 1, us |-> 5]],
      [kind |-> "hist", close |-> 102, volume |-> 12, rsi |-> 29,
       macd |-> 1, signal |-> 2, now |-> [sec |-> 2, us |-> 5]] }

fetch_stock_data(symbol, out) ==
    IF out.kind = "empty"
    THEN [symbol |-> symbol, error |-> "No data returned"]
    ELSE IF out.kind = "raise"
    THEN [symbol |-> symbol, error |-> out.msg]
    ELSE [ symbol      |-> symbol,
           price       |-> out.close,
           rsi         |-> out.rsi,
           macd        |-> out.macd,
           macd_signal |-> out.signal,
           macd_hist   |-> FloatSub(out.macd, out.signal),
           volume      |-> out.volume,
           timestamp   |-> strftime(out.now) ]


\* ------------------------------------------------------------------ state

\* The background_update thread and one request thread in refresh_stocks.
Threads == {"bg", "req"}

\* Every symbol fetch_stocks_from_db can hand to a cycle.
Symbols ==
    UNION { { fetch_stocks_from_db(db)[k] :
                k \in 1..Len(fetch_stocks_from_db(db)) } : db \in DbOutcomes }

\* The assignments of a successful merge, in program order.
MergeFields ==
    << "price", "rsi", "macd", "macd_signal", "macd_hist", "volume",
       "timestamp", "error" >>

NoData == [none |-> TRUE]
EmptyDict == [k \in {} |-> 0]
NoDone == [last |-> "none", good |-> FALSE, macd |-> 0, signal |-> 0]

VARIABLES
    stock_data_store,  \* symbol -> StockData, the global store
    pc,                \* thread -> the statement it is at
    stocks,            \* thread -> the symbol list of its cycle
    idx,               \* thread -> position in stocks (1-based)
    data,              \* thread -> the dict fetch_stock_data returned
    stock,             \* thread -> its local `stock`: none, live (the object
                       \*   the store holds) or orphan (an object the store
                       \*   no longer holds)
    fld,               \* thread -> position in MergeFields
    \* history variables: they record what happened, no action reads them
    \* to decide what the program does
    cycleCounter,      \* cycles started so far
    fetches,           \* calls of fetch_stock_data so far
    cyc,               \* thread -> the number of its cycle
    storedSeq,         \* symbol -> cycle of the last result merged into it
    stale,             \* thread -> its result was stale when its merge began
    done,              \* symbol -> the last merge that completed for it
    attempted,         \* thread -> symbols fetched in its cycle, in order
    hadFail,           \* thread -> a symbol of its cycle has failed
    dirty,             \* thread -> another thread wrote the entry since this
                       \*   thread took its reference
    probeIn,           \* input of the pure function under test
    probeOut,          \* its output, or Pending
    \* a request in get_stocks
    rpc,               \* the statement the request is at
    rused,             \* size of the dict when its iterator was created
    rcur,              \* the symbol whose StockData to_dict is converting
    rfld,              \* position in ToDictFields
    rdict,             \* the dict to_dict is building
    stocks_list,       \* symbol -> dict: the list the request has built
    rarg,              \* the <symbol> of a request in get_stock
    rsnaps,            \* history: the dicts to_dict would have returned at
                       \*   a step of that request so far, those that hold
                       \*   the items it has evaluated
    \* StockDashboard of stock_analyzer_backup_20250524_164335.py
    bk_up,             \* __init__ has run
    bk_stocks,         \* self.stocks: list of [symbol, row, data]
    bk_workers,        \* self.workers: list of [symbol, st]
    bk_events,         \* data_ready signals queued for the GUI thread
    bk_auto,           \* auto_refresh_check.isChecked()
    bk_timer,          \* when refresh_timer fires next, or TimerOff
    bk_next,           \* self.next_refresh_time
    bk_now,            \* QTime.currentTime(), in seconds
    bk_btn,            \* refresh_btn.isEnabled()
    bk_progress,       \* the progress bar is shown
    bk_cycles,         \* history: runs of load_todays_stocks so far
    bk_clicks,         \* history: clicks on the refresh button so far
    \* StockAnalyzerApp of simple_stock_analyzer.py
    sm_workers,        \* self.workers: symbol -> running / finished
    sm_stock_data,     \* self.stock_data: symbol -> result
    sm_table,          \* the rows of self.table
    sm_progress,       \* self.progress: [shown, value]
    sm_status,         \* the text of self.status_label
    sm_crashed,        \* a slot raised: the process has been aborted
    sm_refreshes,      \* history: calls of refresh_data so far
    \* StockAnalyzerApp of stock_analyzer.py
    pl_task,           \* every StockFetcher created: [symbol, _is_running,
                       \*   st, data, emitted]
    pl_workers,        \* self.workers: positions in pl_task
    pl_events,         \* signals queued for the GUI thread, each with
                       \*   the worker that emitted it
    pl_stocks,         \* self.stocks: symbol -> StockData
    pl_table,          \* the rows of self.table
    pl_refreshes,      \* history: calls of refresh_data so far
    pl_sort_rsi_ascending,  \* self.sort_rsi_ascending
    pl_timers,         \* QTimer.singleShot timers of the sort not yet fired
    \* the indicator computation of StockFetcher.run and fetch_stock_data
    ie_engine,         \* whose code computes: "run" or "fetch_stock_data"
    ie_hist,           \* the closes of the series under test
    ie_run,            \* which computation this is: 1, 2 or 3
    ie_src,            \* `hist['Close']` of the running computation
    ie_pc,             \* the statement the computation is at
    ie_loc,            \* its locals: rsi, macd, signal, macd_hist
    ie_outs,           \* history: the outcome of each computation so far
    ie_store,          \* the metrics merged last, or NoData
    \* get_stocks and its sort
    ss_store,          \* stock_data_store.values(), in insertion order
    ss_args,           \* request.args of the request answered last
    ss_resp            \* the 'stocks' of its response

vars ==
    << stock_data_store, pc, stocks, idx, data, stock, fld, cycleCounter,
       fetches, cyc, storedSeq, stale, done, attempted, hadFail, dirty,
       probeIn, probeOut, rpc, rused, rcur, rfld, rdict, stocks_list,
       rarg, rsnaps,
       bk_up, bk_stocks, bk_workers, bk_events, bk_auto, bk_timer, bk_next,
       bk_now, bk_btn, bk_progress, bk_cycles, bk_clicks, sm_workers,
       sm_stock_data, sm_table, sm_progress, sm_status, sm_crashed,
       sm_refreshes, pl_task, pl_workers, pl_events, pl_stocks, pl_table,
       pl_refreshes, pl_sort_rsi_ascending, pl_timers,
       ie_engine, ie_hist, ie_run, ie_src, ie_pc, ie_loc,
       ie_outs, ie_store, ss_store, ss_args, ss_resp >>

progVars == << stock_data_store, pc, stocks, idx, data, stock, fld >>
histVars ==
    << cycleCounter, fetches, cyc, storedSeq, stale, done, attempted, hadFail,
       dirty >>
probeVars == << probeIn, probeOut >>
readVars == << rpc, rused, rcur, rfld, rdict, stocks_list, rarg, rsnaps >>
\* What the web variant's refresh code never touches.
backupVars ==
    << bk_up, bk_stocks, bk_workers, bk_events, bk_auto, bk_timer, bk_next,
       bk_now, bk_btn, bk_progress, bk_cycles, bk_clicks >>
simpleVars ==
    << sm_workers, sm_stock_data, sm_table, sm_progress, sm_status,
       sm_crashed, sm_refreshes >>
poolVars ==
    << pl_task, pl_workers, pl_events, pl_stocks, pl_table, pl_refreshes,
       pl_sort_rsi_ascending, pl_timers >>
\* The sort state of the pooled variant.
plSortVars == << pl_sort_rsi_ascending, pl_timers >>
engineVars ==
    << ie_engine, ie_hist, ie_run, ie_src, ie_pc, ie_loc, ie_outs, ie_store >>
sortVars == << ss_store, ss_args, ss_resp >>
otherVars ==
    << readVars, backupVars, simpleVars, poolVars, engineVars, sortVars >>
webVars == << progVars, histVars, probeVars >>
\* What the steps of one variant leave alone.
outsideRead ==
    << webVars, backupVars, simpleVars, poolVars, engineVars, sortVars >>
outsideBackup ==
    << webVars, readVars, simpleVars, poolVars, engineVars, sortVars >>
outsideSimple ==
    << webVars, readVars, backupVars, poolVars, engineVars, sortVars >>
outsidePool ==
    << webVars, readVars, backupVars, simpleVars, engineVars, sortVars >>
outsideEngine ==
    << webVars, readVars, backupVars, simpleVars, poolVars, sortVars >>
outsideSort ==
    << webVars, readVars, backupVars, simpleVars, poolVars, engineVars >>
restVars == << probeVars, otherVars >>

Pending == "pending"

sym(t) == stocks[t][idx[t]]

Stored(s) == s \in DOMAIN stock_data_store

\* Thread u holds, or is about to use, a reference into the entry of s.
Writing(u, s) ==
    /\ pc[u] \in {"hist1", "hist2", "write"}
    /\ sym(u) = s

InitStore ==
    /\ stock_data_store = [s \in {} |-> 0]
    /\ pc = [t \in Threads |-> "idle"]
    /\ stocks = [t \in Threads |-> << >>]
    /\ idx = [t \in Threads |-> 0]
    /\ data = [t \in Threads |-> NoData]
    /\ stock = [t \in Threads |-> "none"]
    /\ fld = [t \in Threads |-> 0]
    /\ cycleCounter = 0
    /\ fetches = 0
    /\ cyc = [t \in Threads |-> 0]
    /\ storedSeq = [s \in Symbols |-> 0]
    /\ stale = [t \in Threads |-> FALSE]
    /\ done = [s \in Symbols |-> NoDone]
    /\ attempted = [t \in Threads |-> << >>]
    /\ hadFail = [t \in Threads |-> FALSE]
    /\ dirty = [t \in Threads |-> FALSE]

\* No request is in get_stocks.
InitRead ==
    /\ rpc = "idle"
    /\ rused = 0
    /\ rcur = None
    /\ rfld = 0
    /\ rdict = EmptyDict
    /\ stocks_list = [s \in {} |-> 0]
    /\ rarg = None
    /\ rsnaps = {}

TimerOff == -1

\* StockDashboard has not been constructed.
InitBackup ==
    /\ bk_up = FALSE
    /\ bk_stocks = << >>
    /\ bk_workers = << >>
    /\ bk_events = << >>
    /\ bk_auto = TRUE
    /\ bk_timer = TimerOff
    /\ bk_next = 0
    /\ bk_now = 0
    /\ bk_btn = TRUE
    /\ bk_progress = FALSE
    /\ bk_cycles = 0
    /\ bk_clicks = 0

\* StockAnalyzerApp of the simple analyzer before its constructor calls
\* refresh_data.
InitSimple ==
    /\ sm_workers = EmptyDict
    /\ sm_stock_data = EmptyDict
    /\ sm_table = << >>
    /\ sm_progress = [shown |-> FALSE, value |-> 0]
    /\ sm_status = "Ready"
    /\ sm_crashed = FALSE
    /\ sm_refreshes = 0

\* StockAnalyzerApp of the pooled analyzer before its constructor calls
\* refresh_data.
InitPool ==
    /\ pl_task = << >>
    /\ pl_workers = << >>
    /\ pl_events = << >>
    /\ pl_stocks = EmptyDict
    /\ pl_table = << >>
    /\ pl_refreshes = 0
    /\ pl_sort_rsi_ascending = TRUE
    /\ pl_timers = 0

\* No indicator computation is under test.
InitEngineOff ==
    /\ ie_engine = "run"
    /\ ie_hist = << >>
    /\ ie_run = 0
    /\ ie_src = << >>
    /\ ie_pc = "off"
    /\ ie_loc = NoData
    /\ ie_outs = << >>
    /\ ie_store = NoData

\* No request with a sort is under test.
InitSortOff ==
    /\ ss_store = << >>
    /\ ss_args = NoData
    /\ ss_resp = NoData

InitOthers ==
    /\ InitRead /\ InitBackup /\ InitSimple /\ InitPool
    /\ InitEngineOff /\ InitSortOff

Init ==
    /\ InitStore
    /\ InitOthers
    /\ probeIn = << >>
    /\ probeOut = Pending

\* ---------------------------------------------------------------- actions

\* StartCycle as it would be if an exception of the symbol source escaped
\* the loop: the thread ends.
StartCycleDies(t) ==
    /\ pc[t] = "idle"
    /\ fetches < MaxFetches
    /\ \E db \in DbOutcomes :
         IF db.kind = "raise"
         THEN /\ stocks' = [stocks EXCEPT ![t] = << >>]
              /\ idx' = [idx EXCEPT ![t] = 0]
              /\ pc' = [pc EXCEPT ![t] = "dead"]
         ELSE /\ stocks' = [stocks EXCEPT ![t] = fetch_stocks_from_db(db)]
              /\ idx' = [idx EXCEPT ![t] = 1]
              /\ pc' = [pc EXCEPT ![t] = "fetch"]
    /\ cycleCounter' = cycleCounter + 1
    /\ cyc' = [cyc EXCEPT ![t] = cycleCounter + 1]
    /\ attempted' = [attempted EXCEPT ![t] = << >>]
    /\ hadFail' = [hadFail EXCEPT ![t] = FALSE]
    /\ UNCHANGED << stock_data_store, data, stock, fld, fetches, storedSeq,
                    stale, done, dirty, restVars >>

\* `stocks = fetch_stocks_from_db()`: a cycle starts.
StartCycle(t) ==
    /\ pc[t] = "idle"
    /\ fetches < MaxFetches
    /\ \E db \in DbOutcomes :
         stocks' = [stocks EXCEPT ![t] = fetch_stocks_from_db(db)]
    /\ idx' = [idx EXCEPT ![t] = 1]
    /\ pc' = [pc EXCEPT ![t] = "fetch"]
    /\ cycleCounter' = cycleCounter + 1
    /\ cyc' = [cyc EXCEPT ![t] = cycleCounter + 1]
    /\ attempted' = [attempted EXCEPT ![t] = << >>]
    /\ hadFail' = [hadFail EXCEPT ![t] = FALSE]
    /\ UNCHANGED << stock_data_store, data, stock, fld, fetches, storedSeq,
                    stale, done, dirty, restVars >>

\* `data = fetch_stock_data(symbol)` and the test `'error' in data`.
Fetch(t) ==
    /\ pc[t] = "fetch"
    /\ fetches < MaxFetches
    /\ fetches' = fetches + 1
    /\ \E out \in FetchOutcomes :
         LET d == fetch_stock_data(sym(t), out)
         IN  /\ data' = [data EXCEPT ![t] = d]
             /\ pc' = [pc EXCEPT
                         ![t] = IF "error" \in DOMAIN d THEN "err" ELSE "chk"]
    /\ attempted' = [attempted EXCEPT ![t] = Append(@, sym(t))]
    /\ UNCHANGED << stock_data_store, stocks, idx, stock, fld, cycleCounter,
                    cyc, storedSeq, stale, done, hadFail, dirty, restVars >>

\* Advance as it would be if the loop over the symbols were left after the
\* first symbol.
AdvanceStops(t) ==
    /\ data' = [data EXCEPT ![t] = NoData]
    /\ fld' = [fld EXCEPT ![t] = 0]
    /\ stock' = [stock EXCEPT ![t] = "none"]
    /\ stale' = [stale EXCEPT ![t] = FALSE]
    /\ idx' = [idx EXCEPT ![t] = 0]
    /\ pc' = [pc EXCEPT ![t] = "idle"]
    /\ stocks' = [stocks EXCEPT ![t] = << >>]
    /\ cyc' = [cyc EXCEPT ![t] = 0]
    /\ attempted' = [attempted EXCEPT ![t] = << >>]

\* The end of the loop body: the next symbol, or the end of the cycle (the
\* background thread sleeps, the request thread returns its response).
Advance(t) ==
    /\ data' = [data EXCEPT ![t] = NoData]
    /\ fld' = [fld EXCEPT ![t] = 0]
    /\ stock' = [stock EXCEPT ![t] = "none"]
    /\ stale' = [stale EXCEPT ![t] = FALSE]
    /\ IF idx[t] < Len(stocks[t])
       THEN /\ idx' = [idx EXCEPT ![t] = @ + 1]
            /\ pc' = [pc EXCEPT ![t] = "fetch"]
            /\ UNCHANGED << stocks, cyc, attempted >>
       ELSE /\ idx' = [idx EXCEPT ![t] = 0]
            /\ pc' = [pc EXCEPT ![t] = "idle"]
            /\ stocks' = [stocks EXCEPT ![t] = << >>]
            /\ cyc' = [cyc EXCEPT ![t] = 0]
            /\ attempted' = [attempted EXCEPT ![t] = << >>]

\* The threads other than t that are writing into the entry of s.
Disturbed(t, s) == { u \in Threads \ {t} : Writing(u, s) }

\* MergeError as it would be if a failure reset the entry before recording
\* the error.
MergeErrorResets(t) ==
    /\ pc[t] = "err"
    /\ IF Stored(sym(t))
       THEN /\ stock_data_store' =
                 [stock_data_store EXCEPT
                    ![sym(t)] = [StockData(sym(t), @.timestamp)
                                   EXCEPT !.error = data[t].error]]
            /\ storedSeq' = [storedSeq EXCEPT ![sym(t)] = cyc[t]]
            /\ dirty' = [u \in Threads |->
                           IF u \in Disturbed(t, sym(t)) THEN TRUE
                           ELSE dirty[u]]
       ELSE UNCHANGED << stock_data_store, storedSeq, dirty >>
    /\ done' = [done EXCEPT ![sym(t)].last = "fail"]
    /\ hadFail' = [hadFail EXCEPT ![t] = TRUE]
    /\ Advance(t)
    /\ UNCHANGED << cycleCounter, fetches, restVars >>

\* MergeError as it would be if the error were recorded on every entry of
\* the store instead of the failing symbol's.
MergeErrorOnAll(t) ==
    /\ pc[t] = "err"
    /\ stock_data_store' =
         [s \in DOMAIN stock_data_store |->
            [stock_data_store[s] EXCEPT !.error = data[t].error]]
    /\ UNCHANGED << storedSeq, dirty >>
    /\ done' = [done EXCEPT ![sym(t)].last = "fail"]
    /\ hadFail' = [hadFail EXCEPT ![t] = TRUE]
    /\ Advance(t)
    /\ UNCHANGED << cycleCounter, fetches, restVars >>

\* MergeError as it would be if a failure left the loop over the symbols.
MergeErrorAborts(t) ==
    /\ pc[t] = "err"
    /\ IF Stored(sym(t))
       THEN /\ stock_data_store' =
                 [stock_data_store EXCEPT ![sym(t)].error = data[t].error]
            /\ storedSeq' = [storedSeq EXCEPT ![sym(t)] = cyc[t]]
            /\ dirty' = [u \in Threads |->
                           IF u \in Disturbed(t, sym(t)) THEN TRUE
                           ELSE dirty[u]]
       ELSE UNCHANGED << stock_data_store, storedSeq, dirty >>
    /\ done' = [done EXCEPT ![sym(t)].last = "fail"]
    /\ hadFail' = [hadFail EXCEPT ![t] = TRUE]
    /\ data' = [data EXCEPT ![t] = NoData]
    /\ idx' = [idx EXCEPT ![t] = 0]
    /\ pc' = [pc EXCEPT ![t] = "idle"]
    /\ stocks' = [stocks EXCEPT ![t] = << >>]
    /\ cyc' = [cyc EXCEPT ![t] = 0]
    /\ attempted' = [attempted EXCEPT ![t] = << >>]
    /\ UNCHANGED << fld, stock, stale, cycleCounter, fetches, restVars >>

\* MergeError as it would be if a failure created the missing entry to hold
\* the error.
MergeErrorCreates(t) ==
    /\ pc[t] = "err"
    /\ stock_data_store' =
         (sym(t) :> [(IF Stored(sym(t)) THEN stock_data_store[sym(t)]
                      ELSE StockData(sym(t), [sec |-> 0, us |-> 0]))
                        EXCEPT !.error = data[t].error]) @@ stock_data_store
    /\ storedSeq' = [storedSeq EXCEPT ![sym(t)] = cyc[t]]
    /\ dirty' = [u \in Threads |->
                   IF u \in Disturbed(t, sym(t)) THEN TRUE ELSE dirty[u]]
    /\ done' = [done EXCEPT ![sym(t)].last = "fail"]
    /\ hadFail' = [hadFail EXCEPT ![t] = TRUE]
    /\ Advance(t)
    /\ UNCHANGED << cycleCounter, fetches, restVars >>

\* `if symbol in stock_data_store: stock_data_store[symbol].error = ...`
MergeError(t) ==
    /\ pc[t] = "err"
    /\ IF Stored(sym(t))
       THEN /\ stock_data_store' =
                 [stock_data_store EXCEPT ![sym(t)].error = data[t].error]
            /\ storedSeq' = [storedSeq EXCEPT ![sym(t)] = cyc[t]]
            /\ dirty' = [u \in Threads |->
                           IF u \in Disturbed(t, sym(t)) THEN TRUE
                           ELSE dirty[u]]
       ELSE UNCHANGED << stock_data_store, storedSeq, dirty >>
    /\ done' = [done EXCEPT ![sym(t)].last = "fail"]
    /\ hadFail' = [hadFail EXCEPT ![t] = TRUE]
    /\ Advance(t)
    /\ UNCHANGED << cycleCounter, fetches, restVars >>

\* `if symbol not in stock_data_store:`
CheckEntry(t) ==
    /\ pc[t] = "chk"
    /\ pc' = [pc EXCEPT ![t] = IF Stored(sym(t)) THEN "ref" ELSE "ins"]
    /\ stale' = [stale EXCEPT ![t] = cyc[t] <= storedSeq[sym(t)]]
    /\ UNCHANGED << stock_data_store, stocks, idx, data, stock, fld,
                    cycleCounter, fetches, cyc, storedSeq, done, attempted,
                    hadFail, dirty, restVars >>

\* `stock_data_store[symbol] = StockData(symbol)`: a new object takes the
\* place of whatever the store held; a thread that holds the old object
\* keeps writing into it, unseen by the store.  StockData reads the clock
\* later in the second in which fetch_stock_data read it.
InsertEntry(t) ==
    /\ pc[t] = "ins"
    /\ LET now == [sec |-> data[t].timestamp.text, us |-> 9]
       IN  stock_data_store' =
               (sym(t) :> StockData(sym(t), now)) @@ stock_data_store
    /\ stock' = [u \in Threads |->
                   IF u \in Disturbed(t, sym(t)) /\ stock[u] = "live"
                   THEN "orphan" ELSE stock[u]]
    /\ dirty' = [u \in Threads |->
                   IF u \in Disturbed(t, sym(t)) THEN TRUE ELSE dirty[u]]
    /\ pc' = [pc EXCEPT ![t] = "ref"]
    /\ UNCHANGED << stocks, idx, data, fld, cycleCounter, fetches, cyc,
                    storedSeq, stale, done, attempted, hadFail, restVars >>

\* `stock = stock_data_store[symbol]`
TakeRef(t) ==
    /\ pc[t] = "ref"
    /\ stock' = [stock EXCEPT ![t] = "live"]
    /\ dirty' = [dirty EXCEPT ![t] = FALSE]
    /\ pc' = [pc EXCEPT ![t] = "hist1"]
    /\ UNCHANGED << stock_data_store, stocks, idx, data, fld, cycleCounter,
                    fetches, cyc, storedSeq, stale, done, attempted, hadFail,
                    restVars >>

\* A write of thread t through its local `stock`: it reaches the store only
\* while the store still holds that object.
WriteThrough(t, entry) ==
    IF stock[t] = "live"
    THEN /\ stock_data_store' = [stock_data_store EXCEPT ![sym(t)] = entry]
         /\ dirty' = [u \in Threads |->
                        IF u \in Disturbed(t, sym(t)) THEN TRUE ELSE dirty[u]]
    ELSE UNCHANGED << stock_data_store, dirty >>

\* update_macd_history, first statement: `self.prev_macd = self.macd`
UpdateMacdHistory1(t) ==
    /\ pc[t] = "hist1"
    /\ LET e == stock_data_store[sym(t)]
       IN  WriteThrough(t, [e EXCEPT !.prev_macd = e.macd])
    /\ pc' = [pc EXCEPT ![t] = "hist2"]
    /\ UNCHANGED << stocks, idx, data, stock, fld, cycleCounter, fetches,
                    cyc, storedSeq, stale, done, attempted, hadFail,
                    restVars >>

\* update_macd_history, second statement: `self.prev_signal = self.macd_signal`
UpdateMacdHistory2(t) ==
    /\ pc[t] = "hist2"
    /\ LET e == stock_data_store[sym(t)]
       IN  WriteThrough(t, [e EXCEPT !.prev_signal = e.macd_signal])
    /\ pc' = [pc EXCEPT ![t] = "write"]
    /\ fld' = [fld EXCEPT ![t] = 1]
    /\ UNCHANGED << stocks, idx, data, stock, cycleCounter, fetches, cyc,
                    storedSeq, stale, done, attempted, hadFail, restVars >>

\* The value the merge assigns to field f.
MergeValue(d, f) ==
    IF f = "timestamp" THEN strptime(d.timestamp)
    ELSE IF f = "error" THEN None
    ELSE d[f]

\* `stock.price = data['price']` ... `stock.error = None`, one statement a step.
WriteField(t) ==
    /\ pc[t] = "write"
    /\ LET f == MergeFields[fld[t]]
           e == stock_data_store[sym(t)]
       IN  WriteThrough(t, [e EXCEPT ![f] = MergeValue(data[t], f)])
    /\ IF fld[t] < Len(MergeFields)
       THEN /\ fld' = [fld EXCEPT ![t] = @ + 1]
            /\ UNCHANGED << pc, stocks, idx, data, stock, cyc, storedSeq,
                            stale, done, attempted >>
       ELSE /\ storedSeq' = [storedSeq EXCEPT
                               ![sym(t)] = IF stock[t] = "live" THEN cyc[t]
                                           ELSE @]
            /\ done' = [done EXCEPT
                          ![sym(t)] = [last |-> "ok", good |-> TRUE,
                                       macd |-> data[t].macd,
                                       signal |-> data[t].macd_signal]]
            /\ Advance(t)
    /\ UNCHANGED << cycleCounter, fetches, hadFail, restVars >>

Next ==
    \E t \in Threads :
        \/ StartCycle(t)
        \/ Fetch(t)
        \/ MergeError(t)
        \/ CheckEntry(t)
        \/ InsertEntry(t)
        \/ TakeRef(t)
        \/ UpdateMacdHistory1(t)
        \/ UpdateMacdHistory2(t)
        \/ WriteField(t)

Spec == Init /\ [][Next]_vars


\* ------------------------------------------- the periodic driver on its own

\* background_update with no request in flight.  A cycle starts only when
\* the fetches left cover its whole list, so that every cycle that starts
\* can end; the thread is scheduled and its sleep returns (weak fairness).
DriverStart ==
    /\ StartCycle("bg")
    /\ fetches + Len(stocks'["bg"]) <= MaxFetches

NextDriver ==
    \/ DriverStart
    \/ Fetch("bg")
    \/ MergeError("bg")
    \/ CheckEntry("bg")
    \/ InsertEntry("bg")
    \/ TakeRef("bg")
    \/ UpdateMacdHistory1("bg")
    \/ UpdateMacdHistory2("bg")
    \/ WriteField("bg")

SpecDriver == Init /\ [][NextDriver]_vars /\ WF_vars(NextDriver)


\* ------------------------------------------------ get_stocks, the reader

\* Every float of the model has at most one decimal, which round(x, 2) and
\* round(x, 4) keep; round(nan, n) is nan.
round(x, ndigits) == IF x = NaN THEN NaN ELSE x

\* rsi_signal as it would be with the two boundaries left to Neutral.
rsi_signal_strict(self) ==
    IF FloatGt(self.rsi, 70) THEN "Overbought"
    ELSE IF FloatLt(self.rsi, 30) THEN "Oversold"
    ELSE "Neutral"

rsi_signal(self) ==
    IF FloatGe(self.rsi, 70) THEN "Overbought"
    ELSE IF FloatLe(self.rsi, 30) THEN "Oversold"
    ELSE "Neutral"

\* The items of the dict to_dict builds, in the order it evaluates them.
ToDictFields ==
    << "symbol", "price", "rsi", "rsi_signal", "macd", "macd_signal",
       "macd_hist", "macd_crossover", "volume", "timestamp", "error" >>

ToDictValue(self, f) ==
    CASE f = "price" -> round(self.price, 2)
      [] f = "rsi" -> round(self.rsi, 2)
      [] f = "rsi_signal" -> rsi_signal(self)
      [] f = "macd" -> round(self.macd, 4)
      [] f = "macd_signal" -> round(self.macd_signal, 4)
      [] f = "macd_hist" -> round(self.macd_hist, 4)
      [] f = "macd_crossover" -> macd_crossover(self)
      [] f = "timestamp" -> strftime(self.timestamp)
      [] OTHER -> self[f]

to_dict(self) ==
    [f \in { ToDictFields[k] : k \in 1..Len(ToDictFields) } |->
        ToDictValue(self, f)]

\* `for stock in stock_data_store.values()`: the iterator is created.
ReadBegin ==
    /\ rpc = "idle"
    /\ rpc' = "iter"
    /\ rused' = Cardinality(DOMAIN stock_data_store)
    /\ stocks_list' = EmptyDict
    /\ UNCHANGED << rcur, rfld, rdict, rarg, rsnaps, outsideRead >>

\* The iterator's next(): RuntimeError when the dict has changed size (the
\* request ends with a 500 response), else the next StockData, else the end
\* of the comprehension, the sort by symbol and the response.  The list is
\* kept as symbol -> dict: sorted by symbol, it is the same list whatever
\* order the iterator went through the entries.
ReadNext ==
    /\ rpc = "iter"
    /\ IF Cardinality(DOMAIN stock_data_store) # rused
       THEN /\ rpc' = "failed"
            /\ UNCHANGED << rcur, rfld, rdict >>
       ELSE IF DOMAIN stocks_list = DOMAIN stock_data_store
       THEN /\ rpc' = "done"
            /\ UNCHANGED << rcur, rfld, rdict >>
       ELSE /\ \E s \in DOMAIN stock_data_store \ DOMAIN stocks_list :
                 rcur' = s
            /\ rfld' = 1
            /\ rdict' = EmptyDict
            /\ rpc' = "dict"
    /\ UNCHANGED << rused, stocks_list, rarg, rsnaps, outsideRead >>

\* to_dict: one item of the dict is evaluated.
ReadField ==
    /\ rpc = "dict"
    /\ LET f == ToDictFields[rfld]
           d == (f :> ToDictValue(stock_data_store[rcur], f)) @@ rdict
       IN  IF rfld < Len(ToDictFields)
           THEN /\ rdict' = d
                /\ rfld' = rfld + 1
                /\ UNCHANGED << rpc, rcur, stocks_list >>
           ELSE /\ stocks_list' = (rcur :> d) @@ stocks_list
                /\ rdict' = EmptyDict
                /\ rfld' = 0
                /\ rcur' = None
                /\ rpc' = "iter"
    /\ UNCHANGED << rused, rarg, rsnaps, outsideRead >>

\* The response has been sent; the next request may come.
ReadReturn ==
    /\ rpc \in {"done", "failed"}
    /\ rpc' = "idle"
    /\ rused' = 0
    /\ stocks_list' = EmptyDict
    /\ UNCHANGED << rcur, rfld, rdict, rarg, rsnaps, outsideRead >>

\* background_update merging while requests read the store.
NextRead ==
    \/ StartCycle("bg")
    \/ Fetch("bg")
    \/ MergeError("bg")
    \/ CheckEntry("bg")
    \/ InsertEntry("bg")
    \/ TakeRef("bg")
    \/ UpdateMacdHistory1("bg")
    \/ UpdateMacdHistory2("bg")
    \/ WriteField("bg")
    \/ ReadBegin
    \/ ReadNext
    \/ ReadField
    \/ ReadReturn

SpecRead == Init /\ [][NextRead]_vars

\* ---------------------------------------------- get_stock, the single lookup

\* The <symbol> of the URL: with or without the suffix, stored or not.
GetStockArgs == { <<"TCS">>, <<"TCS", NS>>, <<"INFY">> }

\* The dict whole holds every item of the dict part.
Holds(whole, part) == \A f \in DOMAIN part : whole[f] = part[f]

\* get_stock: the symbol is normalised and looked up; to_dict starts on the
\* entry found, or the request ends with the 404 response.
GetStockBegin ==
    /\ rpc = "idle"
    /\ \E arg \in GetStockArgs :
         LET symbol == ensure_nse_symbol(arg)
         IN  /\ rarg' = arg
             /\ rcur' = symbol
             /\ IF symbol \in DOMAIN stock_data_store
                THEN /\ rpc' = "one"
                     /\ rfld' = 1
                     /\ rsnaps' = { to_dict(stock_data_store[symbol]) }
                ELSE /\ rpc' = "notfound"
                     /\ rfld' = 0
                     /\ rsnaps' = {}
    /\ rdict' = EmptyDict
    /\ UNCHANGED << rused, stocks_list, outsideRead >>

\* to_dict: one item of the dict is evaluated; after the last one the dict
\* is the response.
GetStockField ==
    /\ rpc = "one"
    /\ rdict' = (ToDictFields[rfld] :>
                   ToDictValue(stock_data_store[rcur], ToDictFields[rfld]))
                @@ rdict
    /\ rsnaps' = { d \in rsnaps \cup { to_dict(stock_data_store[rcur]) } :
                      Holds(d, rdict') }
    /\ IF rfld < Len(ToDictFields)
       THEN /\ rfld' = rfld + 1
            /\ UNCHANGED rpc
       ELSE /\ rfld' = 0
            /\ rpc' = "found"
    /\ UNCHANGED << rused, rcur, stocks_list, rarg, outsideRead >>

\* The response has been sent; the next request may come.
GetStockReturn ==
    /\ rpc \in {"found", "notfound"}
    /\ rpc' = "idle"
    /\ rcur' = None
    /\ rarg' = None
    /\ rdict' = EmptyDict
    /\ rsnaps' = {}
    /\ UNCHANGED << rused, rfld, stocks_list, outsideRead >>

\* background_update merging while requests look one symbol up.
NextGetOne ==
    \/ StartCycle("bg")
    \/ Fetch("bg")
    \/ MergeError("bg")
    \/ CheckEntry("bg")
    \/ InsertEntry("bg")
    \/ TakeRef("bg")
    \/ UpdateMacdHistory1("bg")
    \/ UpdateMacdHistory2("bg")
    \/ WriteField("bg")
    \/ GetStockBegin
    \/ GetStockField
    \/ GetStockReturn

SpecGetOne == Init /\ [][NextGetOne]_vars

\* ------------------------- StockDashboard (stock_analyzer_backup_20250524)

\* `self.refresh_interval = 3000` milliseconds, in seconds.
refresh_interval == 3

\* What StockDatabase.get_todays_stocks meets: no connection, an exception in
\* the query, or the rows of the query (none, one or two symbols).
BkDbOutcomes ==
    { [kind |-> "noconn"], [kind |-> "raise"],
      [kind |-> "rows", rows |-> << >>],
      [kind |-> "rows", rows |-> << [stock |-> "TCS"] >>],
      [kind |-> "rows", rows |-> << [stock |-> "INFY"], [stock |-> "TCS"] >>] }

get_todays_stocks(db) ==
    IF db.kind = "noconn" THEN << >>
    ELSE IF db.kind = "raise" THEN << >>
    ELSE db.rows

\* What StockDataFetcher.run ends with: no history in the database and none
\* from yfinance, or the indicators of the history.
BkFetchOutcomes ==
    { [kind |-> "empty"],
      [kind |-> "hist", close |-> 101, rsi |-> 71, macd |-> 2, signal |-> 1,
       diff |-> 1] }

BkResult(symbol, out) ==
    IF out.kind = "empty"
    THEN [symbol |-> symbol, error |-> "No data available"]
    ELSE [ symbol      |-> symbol,
           price       |-> out.close,
           rsi         |-> out.rsi,
           macd        |-> out.macd,
           macd_signal |-> out.signal,
           macd_hist   |-> out.diff,
           error       |-> None ]

BkRunning(w) == w.st \in {"running", "emitted"}

BkKnown(symbol) == \E k \in 1..Len(bk_stocks) : bk_stocks[k].symbol = symbol

RECURSIVE BkAddStocks(_, _)
\* The loop of load_todays_stocks over the rows: a new symbol is appended
\* with the next row number, a known one has its data reset.
BkAddStocks(cur, rows) ==
    IF rows = << >> THEN cur
    ELSE LET symbol == Head(rows).stock
             known == \E k \in 1..Len(cur) : cur[k].symbol = symbol
             nxt == IF known
                    THEN [k \in 1..Len(cur) |->
                            IF cur[k].symbol = symbol
                            THEN [cur[k] EXCEPT !.data = NoData]
                            ELSE cur[k]]
                    ELSE Append(cur, [symbol |-> symbol, row |-> Len(cur),
                                      data |-> NoData])
         IN  BkAddStocks(nxt, Tail(rows))

\* load_todays_stocks.  A worker that terminate() hits emits nothing more;
\* a worker that gets its signal out before terminate() takes effect is the
\* worker that emitted just before this call.
load_todays_stocks(db) ==
    LET today == get_todays_stocks(db)
    IN  /\ bk_cycles' = bk_cycles + 1
        /\ IF today = << >>
           THEN /\ bk_workers' = << >>
                /\ bk_progress' = FALSE
                /\ bk_btn' = TRUE
                /\ UNCHANGED bk_stocks
           ELSE /\ bk_stocks' = BkAddStocks(bk_stocks, today)
                /\ bk_workers' = [k \in 1..Len(today) |->
                                    [symbol |-> today[k].stock,
                                     st |-> "running"]]
                /\ bk_progress' = TRUE
                /\ bk_btn' = FALSE

\* __init__: the first load, then the timer is started.
BkConstruct ==
    /\ ~bk_up
    /\ bk_up' = TRUE
    /\ \E db \in BkDbOutcomes : load_todays_stocks(db)
    /\ bk_timer' = bk_now + refresh_interval
    /\ bk_next' = bk_now + refresh_interval
    /\ UNCHANGED << bk_events, bk_auto, bk_now, bk_clicks, outsideBackup >>

\* auto_refresh_data, as the timer and manual_refresh call it.
auto_refresh_data ==
    IF bk_auto /\ bk_now >= bk_next
    THEN /\ bk_next' = bk_now + refresh_interval
         /\ \E db \in BkDbOutcomes : load_todays_stocks(db)
    ELSE UNCHANGED << bk_next, bk_stocks, bk_workers, bk_progress, bk_btn,
                      bk_cycles >>

\* refresh_timer.timeout: the event loop of the GUI thread handles a timeout
\* that is due, and the timer is due again one interval after the time it
\* was due, or after now should that be in the past.
BkTimeout ==
    /\ bk_up
    /\ bk_timer # TimerOff
    /\ bk_now >= bk_timer
    /\ bk_timer' = IF bk_timer + refresh_interval < bk_now
                   THEN bk_now + refresh_interval
                   ELSE bk_timer + refresh_interval
    /\ auto_refresh_data
    /\ UNCHANGED << bk_up, bk_events, bk_auto, bk_now, bk_clicks,
                    outsideBackup >>

\* manual_refresh: a click on the (enabled) refresh button.
manual_refresh ==
    /\ bk_up
    /\ bk_btn
    /\ bk_clicks < MaxClicks
    /\ bk_clicks' = bk_clicks + 1
    /\ IF bk_auto
       THEN /\ auto_refresh_data
            /\ bk_timer' = bk_now + refresh_interval
       ELSE /\ \E db \in BkDbOutcomes : load_todays_stocks(db)
            /\ UNCHANGED << bk_timer, bk_next >>
    /\ UNCHANGED << bk_up, bk_events, bk_auto, bk_now, outsideBackup >>

\* toggle_auto_refresh: the check box changes state.
BkToggle ==
    /\ bk_up
    /\ bk_auto' = ~bk_auto
    /\ IF bk_auto'
       THEN /\ bk_timer' = bk_now + refresh_interval
            /\ bk_next' = bk_now + refresh_interval
       ELSE /\ bk_timer' = TimerOff
            /\ UNCHANGED bk_next
    /\ UNCHANGED << bk_up, bk_stocks, bk_workers, bk_events, bk_now, bk_btn,
                    bk_progress, bk_cycles, bk_clicks, outsideBackup >>

\* A second passes.  A timeout that is due waits for the event loop, which
\* may be busy in a slot: the GUI thread handles it now or later.
BkTick ==
    /\ bk_up
    /\ bk_now < MaxClock
    /\ bk_now' = bk_now + 1
    /\ UNCHANGED << bk_up, bk_stocks, bk_workers, bk_events, bk_auto,
                    bk_timer, bk_next, bk_btn, bk_progress, bk_cycles,
                    bk_clicks, outsideBackup >>

\* StockDataFetcher.run up to `self.data_ready.emit(result)`.
BkWorkerRun(k) ==
    /\ k \in 1..Len(bk_workers)
    /\ bk_workers[k].st = "running"
    /\ \E out \in BkFetchOutcomes :
         bk_events' = Append(bk_events, BkResult(bk_workers[k].symbol, out))
    /\ bk_workers' = [bk_workers EXCEPT ![k].st = "emitted"]
    /\ UNCHANGED << bk_up, bk_stocks, bk_auto, bk_timer, bk_next, bk_now,
                    bk_btn, bk_progress, bk_cycles, bk_clicks, outsideBackup >>

\* The thread of the worker ends.
BkWorkerExit(k) ==
    /\ k \in 1..Len(bk_workers)
    /\ bk_workers[k].st = "emitted"
    /\ bk_workers' = [bk_workers EXCEPT ![k].st = "finished"]
    /\ UNCHANGED << bk_up, bk_stocks, bk_events, bk_auto, bk_timer, bk_next,
                    bk_now, bk_btn, bk_progress, bk_cycles, bk_clicks,
                    outsideBackup >>

\* update_stock_data, the slot of data_ready, with update_complete.
BkUpdateStockData ==
    /\ bk_events # << >>
    /\ bk_events' = Tail(bk_events)
    /\ LET result == Head(bk_events)
           updated == [k \in 1..Len(bk_stocks) |->
                        IF bk_stocks[k].symbol = result.symbol
                             /\ result.error = None
                        THEN [bk_stocks[k] EXCEPT !.data = result]
                        ELSE bk_stocks[k]]
           complete ==
               /\ BkKnown(result.symbol)
               /\ \A k \in 1..Len(updated) : updated[k].data # NoData
               /\ \A k \in 1..Len(bk_workers) : ~BkRunning(bk_workers[k])
       IN  /\ bk_stocks' = updated
           /\ IF complete
              THEN bk_progress' = FALSE /\ bk_btn' = TRUE
              ELSE UNCHANGED << bk_progress, bk_btn >>
    /\ UNCHANGED << bk_up, bk_workers, bk_auto, bk_timer, bk_next, bk_now,
                    bk_cycles, bk_clicks, outsideBackup >>

NextBackup ==
    \/ BkConstruct
    \/ BkTimeout
    \/ manual_refresh
    \/ BkToggle
    \/ BkTick
    \/ \E k \in 1..2 : BkWorkerRun(k)
    \/ \E k \in 1..2 : BkWorkerExit(k)
    \/ BkUpdateStockData

SpecBackup == Init /\ [][NextBackup]_vars

\* ------------------------------ StockAnalyzerApp (simple_stock_analyzer.py)

\* `self.stocks`, the fixed list of the simple analyzer.
SmStocks ==
    << <<"INFY", NS>>, <<"RELIANCE", NS>>, <<"TCS", NS>>, <<"HDFCBANK", NS>>,
       <<"HINDUNILVR", NS>>, <<"ICICIBANK", NS>>, <<"SBIN", NS>>,
       <<"KOTAKBANK", NS>> >>

SmSymbols == { SmStocks[k] : k \in 1..Len(SmStocks) }

\* `self.stocks.index(symbol)`, 0-based.
SmIndex(symbol) ==
    CHOOSE k \in 0..(Len(SmStocks) - 1) : SmStocks[k + 1] = symbol

\* `symbol.replace(".NS", "")`
SmStrip(symbol) == SelectSeq(symbol, LAMBDA part : part # NS)

\* What StockDataFetcher.run of the simple analyzer ends with.
SmFetchOutcomes ==
    { [kind |-> "empty"],
      [kind |-> "hist", close |-> 101, volume |-> 11, rsi |-> 71,
       macd |-> 2, signal |-> 1, now |-> [sec |-> 1, us |-> 5]] }

SmResult(symbol, out) ==
    [ symbol      |-> symbol,
      price       |-> round(out.close, 2),
      rsi         |-> round(out.rsi, 2),
      macd        |-> round(out.macd, 4),
      macd_signal |-> round(out.signal, 4),
      macd_hist   |-> round(FloatSub(round(out.macd, 4),
                                     round(out.signal, 4)), 4),
      volume      |-> out.volume,
      timestamp   |-> strftime(out.now) ]

SmRunning == { w \in DOMAIN sm_workers : sm_workers[w] = "running" }

\* refresh_data: every running worker is terminated and a thread is started
\* for each symbol of self.stocks.  A worker that terminate() hits emits
\* nothing more.
SmRefreshData ==
    /\ ~sm_crashed
    /\ sm_refreshes < MaxRefresh
    /\ sm_refreshes' = sm_refreshes + 1
    /\ sm_status' = "Updating data..."
    /\ sm_progress' = [shown |-> TRUE, value |-> 0]
    /\ sm_workers' = [w \in SmSymbols |-> "running"]
    /\ UNCHANGED << sm_stock_data, sm_table, sm_crashed, outsideSimple >>

\* StockDataFetcher.run fails: progress 25, then error_occurred, and the
\* slots update_progress and handle_error.
SmWorkerFails(w) ==
    /\ ~sm_crashed
    /\ w \in SmRunning
    /\ sm_workers' = [sm_workers EXCEPT ![w] = "finished"]
    /\ sm_progress' = [sm_progress EXCEPT !.value = 25]
    /\ sm_status' = "Error updating"
    /\ sm_table' = [r \in 1..Len(sm_table) |->
                      IF r - 1 = SmIndex(w)
                      THEN [sm_table[r] EXCEPT !.kind = "Error",
                                               !.data = NoData]
                      ELSE sm_table[r]]
    /\ UNCHANGED << sm_stock_data, sm_crashed, sm_refreshes, outsideSimple >>

\* StockDataFetcher.run succeeds: progress 25, 50, 75, 100, then data_ready,
\* and the slots update_progress and update_stock_data.  insertRow(row)
\* inserts nothing when row is beyond the row count; item(row, 0) is then
\* None and the slot raises, which ends the process.
SmWorkerSucceeds(w) ==
    /\ ~sm_crashed
    /\ w \in SmRunning
    /\ sm_workers' = [sm_workers EXCEPT ![w] = "finished"]
    /\ sm_progress' = [shown |-> FALSE, value |-> 100]
    /\ sm_status' = "Ready"
    /\ \E out \in SmFetchOutcomes :
         /\ out.kind = "hist"
         /\ LET result == SmResult(w, out)
                row == SmIndex(w)
                shown == [name |-> SmStrip(w), kind |-> "data",
                          data |-> result]
            IN  /\ sm_stock_data' = (w :> result) @@ sm_stock_data
                /\ IF row < Len(sm_table)
                   THEN /\ sm_table' = [sm_table EXCEPT ![row + 1] = shown]
                        /\ UNCHANGED sm_crashed
                   ELSE IF row = Len(sm_table)
                   THEN /\ sm_table' = Append(sm_table, shown)
                        /\ UNCHANGED sm_crashed
                   ELSE /\ sm_crashed' = TRUE
                        /\ UNCHANGED sm_table
    /\ UNCHANGED << sm_refreshes, outsideSimple >>

NextSimple ==
    \/ SmRefreshData
    \/ \E w \in SmSymbols : SmWorkerFails(w)
    \/ \E w \in SmSymbols : SmWorkerSucceeds(w)

SpecSimple == Init /\ [][NextSimple]_vars

\* A started QThread runs to the end of run(), and the event loop of the
\* GUI thread handles the signals it has emitted.
SpecSimpleFair ==
    SpecSimple
      /\ WF_vars(\E w \in SmSymbols : SmWorkerFails(w) \/ SmWorkerSucceeds(w))

\* ------------------------------------------------------------- list.sort

\* The symbols of the stores under test, in the order of Python's str <.
SsSymbols == << <<"INFY", NS>>, <<"RELIANCE", NS>>, <<"TCS", NS>> >>

SsRank(symbol) == CHOOSE k \in 1..Len(SsSymbols) : SsSymbols[k] = symbol

\* x['<sort_by>'] < y['<sort_by>'] of two dicts: str, float or int.
KeyLess(x, y, sort_by) ==
    IF sort_by = "symbol" THEN SsRank(x[sort_by]) < SsRank(y[sort_by])
    ELSE FloatLt(x[sort_by], y[sort_by])

Reversed(s) == [i \in 1..Len(s) |-> s[Len(s) + 1 - i]]

\* count_run of list.sort: the length of the run that starts the list, which
\* is descending when its second item is less than its first.
RECURSIVE RunLength(_, _, _, _)
RunLength(s, sort_by, descending, n) ==
    IF n = Len(s) THEN n
    ELSE IF KeyLess(s[n + 1], s[n], sort_by) = descending
    THEN RunLength(s, sort_by, descending, n + 1)
    ELSE n

\* binarysort of list.sort: where the item at start goes among the sorted
\* items before it, found by bisection between l and r.
RECURSIVE InsertionPoint(_, _, _, _, _)
InsertionPoint(s, sort_by, pivot, l, r) ==
    IF l >= r THEN l
    ELSE LET p == l + ((r - l) \div 2)
         IN  IF KeyLess(pivot, s[p], sort_by)
             THEN InsertionPoint(s, sort_by, pivot, l, p)
             ELSE InsertionPoint(s, sort_by, pivot, p + 1, r)

RECURSIVE BinarySort(_, _, _)
BinarySort(s, sort_by, start) ==
    IF start > Len(s) THEN s
    ELSE LET l == InsertionPoint(s, sort_by, s[start], 1, start)
             moved == [i \in 1..Len(s) |->
                         IF i < l \/ i > start THEN s[i]
                         ELSE IF i = l THEN s[start]
                         ELSE s[i - 1]]
         IN  BinarySort(moved, sort_by, start + 1)

\* list.sort(key=lambda x: x[sort_by], reverse=reverse) as CPython sorts a
\* list of fewer than 64 items: the list is reversed before and after when
\* reverse is set, its first run is found (and reversed when descending) and
\* the other items are inserted by bisection.
ListSort(s, sort_by, reverse) ==
    IF Len(s) < 2 THEN s
    ELSE LET a == IF reverse THEN Reversed(s) ELSE s
             descending == KeyLess(a[2], a[1], sort_by)
             n == RunLength(a, sort_by, descending, 2)
             b == IF descending
                  THEN [i \in 1..Len(a) |->
                          IF i <= n THEN a[n + 1 - i] ELSE a[i]]
                  ELSE a
             c == BinarySort(b, sort_by, n + 1)
         IN  IF reverse THEN Reversed(c) ELSE c

\* ----------------------------------- StockAnalyzerApp (stock_analyzer.py)

\* `MAX_WORKERS = 5`, the thread count of self.thread_pool.
MAX_WORKERS == 5

\* fetch_stocks_from_db of stock_analyzer.py: as in app.py, but the except
\* branch returns DEFAULT_STOCKS as it is.
PlFetchStocksFromDb(db) ==
    IF db.kind = "noconn" THEN EnsureAll(DEFAULT_STOCKS)
    ELSE IF db.kind = "raise" THEN DEFAULT_STOCKS
    ELSE LET found == EnsureAll(db.rows)
         IN  IF found # << >> THEN found
             ELSE EnsureAll(DEFAULT_STOCKS)

PlIds == 1..Len(pl_task)

\* The workers a thread of the pool is running.
PlActive == { w \in PlIds : pl_task[w].st \in {"running", "ready", "failing"} }

\* StockFetcher(symbol)
StockFetcher(symbol) ==
    [symbol |-> symbol, _is_running |-> TRUE, st |-> "queued",
     data |-> NoData, emitted |-> FALSE]

\* refresh_data: stop() on every worker of self.workers, then a worker for
\* each symbol of the list is handed to the pool.
PlRefreshData ==
    /\ pl_refreshes < MaxRefresh
    /\ pl_refreshes' = pl_refreshes + 1
    /\ \E db \in DbOutcomes :
         LET list == PlFetchStocksFromDb(db)
             stopped == [w \in PlIds |->
                           IF \E k \in 1..Len(pl_workers) : pl_workers[k] = w
                           THEN [pl_task[w] EXCEPT !._is_running = FALSE]
                           ELSE pl_task[w]]
         IN  /\ pl_task' =
                  stopped \o [k \in 1..Len(list) |-> StockFetcher(list[k])]
             /\ pl_workers' = [k \in 1..Len(list) |-> Len(pl_task) + k]
    /\ pl_timers' = pl_timers + 1
    /\ UNCHANGED << pl_events, pl_stocks, pl_table, pl_sort_rsi_ascending,
                    outsidePool >>

\* A thread of the pool takes the oldest queued worker and enters run():
\* `if not self._is_running: return`.
PlRunStart(w) ==
    /\ w \in PlIds
    /\ pl_task[w].st = "queued"
    /\ \A v \in PlIds : v < w => pl_task[v].st # "queued"
    /\ Cardinality(PlActive) < MAX_WORKERS
    /\ pl_task' = [pl_task EXCEPT
                     ![w].st = IF pl_task[w]._is_running THEN "running"
                               ELSE "finished"]
    /\ UNCHANGED << pl_workers, pl_events, pl_stocks, pl_table, pl_refreshes,
                    plSortVars, outsidePool >>

\* run(): the history is fetched and the indicators are computed.  An empty
\* history emits error_occurred at once; an exception goes to the handler.
PlRunFetch(w) ==
    /\ w \in PlIds
    /\ pl_task[w].st = "running"
    /\ \E out \in FetchOutcomes :
         IF out.kind = "empty"
         THEN /\ pl_task' = [pl_task EXCEPT ![w].st = "finished",
                                            ![w].emitted = TRUE]
              /\ pl_events' =
                   Append(pl_events,
                          [signal |-> "error_occurred", worker |-> w,
                           symbol |-> pl_task[w].symbol,
                           error |-> "No data returned"])
         ELSE IF out.kind = "raise"
         THEN /\ pl_task' = [pl_task EXCEPT
                               ![w].st = "failing",
                               ![w].data = [symbol |-> pl_task[w].symbol,
                                            error |-> out.msg]]
              /\ UNCHANGED pl_events
         ELSE /\ pl_task' = [pl_task EXCEPT
                               ![w].st = "ready",
                               ![w].data =
                                   fetch_stock_data(pl_task[w].symbol, out)]
              /\ UNCHANGED pl_events
    /\ UNCHANGED << pl_workers, pl_stocks, pl_table, pl_refreshes,
                    plSortVars, outsidePool >>

\* run(): `if self._is_running: self.signals.data_ready.emit(data)`, or the
\* same test before error_occurred in the except branch; then the end, and
\* the locals of run() are gone.
PlRunEmit(w) ==
    /\ w \in PlIds
    /\ pl_task[w].st \in {"ready", "failing"}
    /\ IF pl_task[w]._is_running
       THEN /\ pl_events' =
                 Append(pl_events,
                        IF pl_task[w].st = "ready"
                        THEN [signal |-> "data_ready", worker |-> w,
                              data |-> pl_task[w].data]
                        ELSE [signal |-> "error_occurred", worker |-> w,
                              symbol |-> pl_task[w].symbol,
                              error |-> pl_task[w].data.error])
            /\ pl_task' = [pl_task EXCEPT ![w].st = "finished",
                                          ![w].data = NoData,
                                          ![w].emitted = TRUE]
       ELSE /\ pl_task' = [pl_task EXCEPT ![w].st = "finished",
                                          ![w].data = NoData]
            /\ UNCHANGED pl_events
    /\ UNCHANGED << pl_workers, pl_stocks, pl_table, pl_refreshes,
                    plSortVars, outsidePool >>

\* The row of the table whose first cell is symbol, or 0.
PlRowOf(symbol) ==
    IF \E r \in 1..Len(pl_table) : pl_table[r].symbol = symbol
    THEN CHOOSE r \in 1..Len(pl_table) : pl_table[r].symbol = symbol
    ELSE 0

\* The cells update_stock_data writes for a StockData.
PlCells(e) ==
    [price |-> e.price, rsi |-> e.rsi, rsi_signal |-> rsi_signal(e),
     macd |-> e.macd, crossover |-> macd_crossover(e),
     macd_hist |-> e.macd_hist, volume |-> e.volume]

\* `abs(stock.price - data['price']) > 0.01`
PlPriceChanged(old, new) ==
    old # NaN /\ new # NaN /\ old # new

\* StockData of stock_analyzer.py: the class of app.py without `error`.
PlStockData(symbol, now) ==
    [ symbol      |-> symbol,
      price       |-> 0,
      rsi         |-> 0,
      macd        |-> 0,
      macd_signal |-> 0,
      macd_hist   |-> 0,
      volume      |-> 0,
      timestamp   |-> now,
      prev_macd   |-> 0,
      prev_signal |-> 0 ]

\* update_stock_data, the slot of data_ready.
PlUpdateStockData(d) ==
    LET symbol == d.symbol
        old == IF symbol \in DOMAIN pl_stocks THEN pl_stocks[symbol]
               ELSE PlStockData(symbol, [sec |-> d.timestamp.text, us |-> 9])
        price_changed == PlPriceChanged(old.price, d.price)
        e == [old EXCEPT !.prev_macd = old.macd,
                         !.prev_signal = old.macd_signal,
                         !.price = d.price,
                         !.rsi = d.rsi,
                         !.macd = d.macd,
                         !.macd_signal = d.macd_signal,
                         !.macd_hist = d.macd_hist,
                         !.volume = d.volume,
                         !.timestamp = strptime(d.timestamp)]
        row == PlRowOf(symbol)
    IN  /\ pl_stocks' = (symbol :> e) @@ pl_stocks
        /\ IF row = 0
           THEN pl_table' = Append(pl_table, [symbol |-> symbol,
                                              error |-> FALSE,
                                              cells |-> PlCells(e)])
           ELSE IF price_changed
           THEN pl_table' = [pl_table EXCEPT ![row].error = FALSE,
                                             ![row].cells = PlCells(e)]
           ELSE UNCHANGED pl_table
        /\ pl_timers' = pl_timers + 1

\* handle_error as it would be without the search for the row of the symbol.
PlHandleErrorAppends(symbol) ==
    /\ pl_table' = Append(pl_table, [symbol |-> symbol, error |-> TRUE,
                                     cells |-> NoData])
    /\ UNCHANGED << pl_stocks, pl_timers >>

\* handle_error, the slot of error_occurred.
PlHandleError(symbol) ==
    LET row == PlRowOf(symbol)
    IN  /\ IF row = 0
           THEN pl_table' = Append(pl_table, [symbol |-> symbol,
                                              error |-> TRUE,
                                              cells |-> NoData])
           ELSE pl_table' = [pl_table EXCEPT ![row].error = TRUE,
                                             ![row].cells = NoData]
        /\ UNCHANGED << pl_stocks, pl_timers >>

\* The rows _apply_rsi_sort reads from the table: (rsi, symbol, row) of every
\* row whose RSI cell float() accepts, which leaves out the rows that
\* handle_error has set to "Error".
PlSortRows(table) ==
    LET numeric == SelectSeq([r \in 1..Len(table) |-> r],
                             LAMBDA r : ~table[r].error)
    IN  [k \in 1..Len(numeric) |->
           [rsi |-> round(table[numeric[k]].cells.rsi, 2),
            symbol |-> table[numeric[k]].symbol,
            row |-> numeric[k]]]

\* `symbol_pos`: the position of a symbol in the sorted rows, the last one
\* should it have several; 0 stands for a symbol that is not a key.
PlSymbolPos(rows, symbol) ==
    LET at == { k \in 1..Len(rows) : rows[k].symbol = symbol }
    IN  IF at = {} THEN 0 ELSE CHOOSE k \in at : \A j \in at : j <= k

\* _apply_rsi_sort on a table: without a numeric row it returns; otherwise
\* the rows whose symbol is in symbol_pos are taken out, the table is
\* cleared and those rows are put back in the order of the sorted RSI.
PlApplyRsiSort(table, ascending) ==
    LET rows == ListSort(PlSortRows(table), "rsi", ~ascending)
        taken == SelectSeq(table,
                           LAMBDA t : PlSymbolPos(rows, t.symbol) # 0)
        row_data == [k \in 1..Len(taken) |->
                       [pos |-> PlSymbolPos(rows, taken[k].symbol),
                        items |-> taken[k]]]
        sorted == ListSort(row_data, "pos", FALSE)
    IN  IF rows = << >> THEN table
        ELSE [k \in 1..Len(sorted) |-> sorted[k].items]

\* A QTimer.singleShot of update_stock_data or refresh_data fires:
\* _apply_rsi_sort, directly or through _delayed_sort.
PlDelayedSort ==
    /\ pl_timers > 0
    /\ pl_timers' = pl_timers - 1
    /\ pl_table' = PlApplyRsiSort(pl_table, pl_sort_rsi_ascending)
    /\ UNCHANGED << pl_task, pl_workers, pl_events, pl_stocks, pl_refreshes,
                    pl_sort_rsi_ascending, outsidePool >>

\* sort_by_rsi, the slot of the "Sort by RSI" button: is_sorting is False
\* whenever the GUI thread is between two slots, so the order is toggled
\* and the table is sorted.
sort_by_rsi ==
    /\ pl_sort_rsi_ascending' = ~pl_sort_rsi_ascending
    /\ pl_table' = PlApplyRsiSort(pl_table, ~pl_sort_rsi_ascending)
    /\ UNCHANGED << pl_task, pl_workers, pl_events, pl_stocks, pl_refreshes,
                    pl_timers, outsidePool >>

\* The GUI thread handles the signal at the head of its queue.
PlDeliver ==
    /\ pl_events # << >>
    /\ pl_events' = Tail(pl_events)
    /\ IF Head(pl_events).signal = "data_ready"
       THEN PlUpdateStockData(Head(pl_events).data)
       ELSE PlHandleError(Head(pl_events).symbol)
    /\ UNCHANGED << pl_task, pl_workers, pl_refreshes, pl_sort_rsi_ascending,
                    outsidePool >>

\* Workers created in one behaviour: MaxRefresh lists of the default length.
PlMaxTasks == MaxRefresh * Len(DEFAULT_STOCKS)

NextPool ==
    \/ PlRefreshData
    \/ \E w \in 1..PlMaxTasks : PlRunStart(w)
    \/ \E w \in 1..PlMaxTasks : PlRunFetch(w)
    \/ \E w \in 1..PlMaxTasks : PlRunEmit(w)
    \/ PlDeliver
    \/ PlDelayedSort
    \/ sort_by_rsi

SpecPool == Init /\ [][NextPool]_vars

\* The signals a StockFetcher can emit for a symbol: data_ready with the
\* dict of run(), or error_occurred with a message.
PlSignals ==
    { [signal |-> "data_ready", worker |-> 0,
       data |-> fetch_stock_data(symbol, out)] :
         symbol \in Symbols, out \in { o \in FetchOutcomes : o.kind = "hist" } }
      \cup
    { [signal |-> "error_occurred", worker |-> 0, symbol |-> symbol,
       error |-> "No data returned"] : symbol \in Symbols }

\* The slots seen from the GUI thread alone: whatever the workers of the
\* pool do, a worker ends with a signal of some symbol queued for
\* update_stock_data or handle_error.
PlSignalArrives ==
    /\ Len(pl_task) < MaxSignals
    /\ \E e \in PlSignals :
         /\ pl_events' =
              Append(pl_events, [e EXCEPT !.worker = Len(pl_task) + 1])
         /\ pl_task' = Append(pl_task,
                              [StockFetcher(IF e.signal = "data_ready"
                                            THEN e.data.symbol
                                            ELSE e.symbol)
                                 EXCEPT !.st = "finished", !.emitted = TRUE])
    /\ UNCHANGED << pl_workers, pl_stocks, pl_table, pl_refreshes, plSortVars,
                    outsidePool >>

\* The slots of the GUI thread under every sequence of signals, timers of
\* the sort and clicks on the sort button.
NextPoolSlots ==
    \/ PlSignalArrives
    \/ PlDeliver
    \/ PlDelayedSort
    \/ sort_by_rsi

SpecPoolSlots == Init /\ [][NextPoolSlots]_vars

\* ------------------------------------------------- the indicator computation

\* A float64 of this computation is an exact fraction n/d in lowest terms;
\* d = 0 stands for the values without one: nan (n = 0), inf (n = 1) and
\* -inf (n = -1).  The sign of a zero is not kept: every quotient by a zero
\* below is divided into 100 before it is used, and 100/inf = 100/-inf.
Abs(x) == IF x < 0 THEN -x ELSE x

RECURSIVE Gcd(_, _)
Gcd(a, b) == IF b = 0 THEN a ELSE Gcd(b, a % b)

Rat(n, d) ==
    LET g == Gcd(Abs(n), d)
    IN  [n |-> n \div g, d |-> d \div g]

nan == [n |-> 0, d |-> 0]
FInt(k) == [n |-> k, d |-> 1]
Sign(k) == IF k > 0 THEN 1 ELSE IF k < 0 THEN -1 ELSE 0
FInf(sgn) == [n |-> sgn, d |-> 0]

isnan(x) == x.d = 0 /\ x.n = 0
isfinite(x) == x.d > 0

FAdd(x, y) ==
    IF isnan(x) \/ isnan(y) THEN nan
    ELSE IF x.d = 0 THEN (IF y.d = 0 /\ y.n # x.n THEN nan ELSE x)
    ELSE IF y.d = 0 THEN y
    ELSE LET g == Gcd(x.d, y.d)
         IN  Rat(x.n * (y.d \div g) + y.n * (x.d \div g),
                 (x.d \div g) * y.d)

FNeg(x) == [n |-> -x.n, d |-> x.d]

FMinus(x, y) == FAdd(x, FNeg(y))

FMul(x, y) ==
    IF isnan(x) \/ isnan(y) THEN nan
    ELSE IF x.d = 0 \/ y.d = 0
    THEN (IF x.n = 0 \/ y.n = 0 THEN nan ELSE FInf(Sign(x.n) * Sign(y.n)))
    ELSE LET g1 == Gcd(Abs(x.n), y.d)
             g2 == Gcd(Abs(y.n), x.d)
         IN  [n |-> (x.n \div g1) * (y.n \div g2),
              d |-> (x.d \div g2) * (y.d \div g1)]

FDiv(x, y) ==
    IF isnan(x) \/ isnan(y) THEN nan
    ELSE IF y.d = 0 THEN (IF x.d = 0 THEN nan ELSE FInt(0))
    ELSE IF y.n = 0 THEN (IF x.n = 0 THEN nan ELSE FInf(Sign(x.n)))
    ELSE IF x.d = 0 THEN FInf(Sign(x.n) * Sign(y.n))
    ELSE FMul(x, [n |-> Sign(y.n) * y.d, d |-> Abs(y.n)])

\* x < y and x <= y of floats: False when either is nan.
FLess(x, y) ==
    /\ ~isnan(x)
    /\ ~isnan(y)
    /\ x # y
    /\ LET diff == FMinus(x, y) IN diff.n < 0

FLessEq(x, y) == ~isnan(x) /\ ~isnan(y) /\ (x = y \/ FLess(x, y))

\* Series.diff(): the first element has no predecessor.
Diff(s) ==
    [i \in 1..Len(s) |-> IF i = 1 THEN nan ELSE FMinus(s[i], s[i - 1])]

\* `delta.where(delta > 0, 0)` and `delta.where(delta < 0, 0)`
WherePositive(s) ==
    [i \in 1..Len(s) |-> IF FLess(FInt(0), s[i]) THEN s[i] ELSE FInt(0)]

WhereNegative(s) ==
    [i \in 1..Len(s) |-> IF FLess(s[i], FInt(0)) THEN s[i] ELSE FInt(0)]

Negated(s) == [i \in 1..Len(s) |-> FNeg(s[i])]

RECURSIVE SumOver(_, _, _)
SumOver(s, from, to) ==
    IF from > to THEN FInt(0)
    ELSE FAdd(s[to], SumOver(s, from, to - 1))

\* Series.rolling(window).mean(): min_periods is the window.
RollingMean(s, window) ==
    [i \in 1..Len(s) |->
        IF i < window THEN nan
        ELSE FDiv(SumOver(s, i - window + 1, i), FInt(window))]

\* Series.ewm(alpha, min_periods, adjust=False).mean().  weighted is the
\* running average (nan before the first number of s), nobs the numbers
\* seen.  No nan follows a number in the series of this model.
RECURSIVE EwmFrom(_, _, _, _, _, _, _)
EwmFrom(s, alpha, min_periods, i, weighted, nobs, out) ==
    IF i > Len(s) THEN out
    ELSE LET cur == s[i]
             is_observation == ~isnan(cur)
             seen == IF is_observation THEN nobs + 1 ELSE nobs
             avg == IF isnan(weighted) THEN cur
                    ELSE IF ~is_observation \/ weighted = cur THEN weighted
                    ELSE FAdd(FMul(FMinus(FInt(1), alpha), weighted),
                              FMul(alpha, cur))
         IN  EwmFrom(s, alpha, min_periods, i + 1, avg, seen,
                     Append(out, IF seen >= min_periods THEN avg ELSE nan))

Ewm(s, alpha, min_periods) ==
    EwmFrom(s, alpha, min_periods, 1, nan, 0, << >>)

\* `span=n` of ewm: alpha = 2 / (span + 1)
SpanAlpha(span) == Rat(2, span + 1)

last(s) == s[Len(s)]

\* StockFetcher.run: `# Calculate RSI`
RunRsi(close) ==
    LET delta == Diff(close)
        gain == RollingMean(WherePositive(delta), 14)
        loss == RollingMean(Negated(WhereNegative(delta)), 14)
        rs == [i \in 1..Len(close) |-> FDiv(gain[i], loss[i])]
    IN  FMinus(FInt(100),
               last([i \in 1..Len(close) |->
                       FDiv(FInt(100), FAdd(FInt(1), rs[i]))]))

\* StockFetcher.run: `# Calculate MACD`
RunMacd(close) ==
    LET exp1 == Ewm(close, SpanAlpha(12), 0)
        exp2 == Ewm(close, SpanAlpha(26), 0)
        macd == [i \in 1..Len(close) |-> FMinus(exp1[i], exp2[i])]
        signal == Ewm(macd, SpanAlpha(9), 0)
    IN  [macd |-> last(macd),
         signal |-> last(signal),
         macd_hist |-> last([i \in 1..Len(close) |->
                               FMinus(macd[i], signal[i])])]

\* ta.momentum.RSIIndicator(close, window).rsi(): averages by ewm with
\* alpha = 1/window and min_periods = window, and 100 where the average loss
\* is 0.
RSIIndicator(close, window) ==
    LET diff == Diff(close)
        emaup == Ewm(WherePositive(diff), Rat(1, window), window)
        emadn == Ewm(Negated(WhereNegative(diff)), Rat(1, window), window)
    IN  [i \in 1..Len(close) |->
           IF emadn[i] = FInt(0) THEN FInt(100)
           ELSE FMinus(FInt(100),
                       FDiv(FInt(100),
                            FAdd(FInt(1), FDiv(emaup[i], emadn[i]))))]

\* ta.trend.MACD(close, window_fast, window_slow, window_sign): every ewm
\* has its span as min_periods.
MACD(close, window_fast, window_slow, window_sign) ==
    LET emafast == Ewm(close, SpanAlpha(window_fast), window_fast)
        emaslow == Ewm(close, SpanAlpha(window_slow), window_slow)
        macd == [i \in 1..Len(close) |-> FMinus(emafast[i], emaslow[i])]
    IN  [macd |-> macd,
         macd_signal |-> Ewm(macd, SpanAlpha(window_sign), window_sign)]

\* The series under test: closes of 100 followed by a tail, with the lengths
\* around the windows of the indicators (14, 26 and 26 + 9 - 1).
IeLens == {0, 1, 13, 14, 15, 26, 27, 28, 33, 34}

IeTails ==
    { << >>, <<101>>, <<99>>, <<101, 102>>, <<99, 98>>, <<101, 99>>,
      <<99, 101>> }

IeSeriesOf(len, tail) ==
    [i \in 1..len |->
        IF i <= len - Len(tail) THEN FInt(100)
        ELSE FInt(tail[i - (len - Len(tail))])]

IeSeries ==
    UNION { { IeSeriesOf(len, tail) :
                tail \in { t \in IeTails : Len(t) <= len } } :
            len \in IeLens }

\* The series another computation works on in between.
IeOtherSeries == { IeSeriesOf(15, <<99, 101>>), IeSeriesOf(1, << >>) }

IeEngines == {"run", "fetch_stock_data"}

\* `int(last_row['Volume'])` of every series of this model.
IeVolume == 11

IeInit ==
    /\ ie_engine \in IeEngines
    /\ ie_hist \in IeSeries
    /\ ie_run = 1
    /\ ie_src = ie_hist
    /\ ie_pc = "history"
    /\ ie_loc = NoData
    /\ ie_outs = << >>
    /\ ie_store = NoData

\* `hist = stock.history(...)`, then the test of hist.empty: both engines
\* end with the error "No data returned".
IeHistory ==
    /\ ie_pc = "history"
    /\ IF ie_src = << >>
       THEN /\ ie_pc' = "done"
            /\ ie_outs' = Append(ie_outs, [error |-> "No data returned"])
       ELSE /\ ie_pc' = "rsi"
            /\ UNCHANGED ie_outs
    /\ UNCHANGED << ie_engine, ie_hist, ie_run, ie_src, ie_loc, ie_store,
                    outsideEngine >>

\* `# Calculate RSI`
IeRsi ==
    /\ ie_pc = "rsi"
    /\ ie_loc' = [rsi |-> IF ie_engine = "run" THEN RunRsi(ie_src)
                          ELSE last(RSIIndicator(ie_src, 14))]
    /\ ie_pc' = "macd"
    /\ UNCHANGED << ie_engine, ie_hist, ie_run, ie_src, ie_outs, ie_store,
                    outsideEngine >>

\* fetch_stock_data: `# Calculate MACD`
FetchMacd(close) ==
    LET macd_indicator == MACD(close, 12, 26, 9)
        macd == last(macd_indicator.macd)
        signal == last(macd_indicator.macd_signal)
    IN  [macd |-> macd, signal |-> signal,
         macd_hist |-> FMinus(macd, signal)]

\* IeMacd with state kept between computations: the signal line resumes
\* from the signal merged last.
IeMacdResumes ==
    /\ ie_pc = "macd"
    /\ LET fresh == IF ie_engine = "run" THEN RunMacd(ie_src)
                    ELSE FetchMacd(ie_src)
           signal == IF ie_store = NoData THEN fresh.signal
                     ELSE FAdd(FMul(SpanAlpha(9), fresh.macd),
                               FMul(FMinus(FInt(1), SpanAlpha(9)),
                                    ie_store.macd_signal))
       IN  ie_loc' = [rsi |-> ie_loc.rsi, macd |-> fresh.macd,
                      signal |-> signal,
                      macd_hist |-> FMinus(fresh.macd, signal)]
    /\ ie_pc' = "data"
    /\ UNCHANGED << ie_engine, ie_hist, ie_run, ie_src, ie_outs, ie_store,
                    outsideEngine >>

\* `# Calculate MACD`
IeMacd ==
    /\ ie_pc = "macd"
    /\ ie_loc' = [rsi |-> ie_loc.rsi] @@
                 (IF ie_engine = "run" THEN RunMacd(ie_src)
                  ELSE FetchMacd(ie_src))
    /\ ie_pc' = "data"
    /\ UNCHANGED << ie_engine, ie_hist, ie_run, ie_src, ie_outs, ie_store,
                    outsideEngine >>

\* `data = {...}`, emitted by run and returned by fetch_stock_data.
IeData ==
    /\ ie_pc = "data"
    /\ ie_outs' = Append(ie_outs,
                         [price |-> last(ie_src),
                          rsi |-> ie_loc.rsi,
                          macd |-> ie_loc.macd,
                          macd_signal |-> ie_loc.signal,
                          macd_hist |-> ie_loc.macd_hist,
                          volume |-> IeVolume])
    /\ ie_pc' = "merge"
    /\ UNCHANGED << ie_engine, ie_hist, ie_run, ie_src, ie_loc, ie_store,
                    outsideEngine >>

\* The merge of the data: update_stock_data, or the loop of
\* background_update, assigns the metrics to the entry of the symbol.
IeMerge ==
    /\ ie_pc = "merge"
    /\ ie_store' = last(ie_outs)
    /\ ie_pc' = "done"
    /\ UNCHANGED << ie_engine, ie_hist, ie_run, ie_src, ie_loc, ie_outs,
                    outsideEngine >>

\* The next computation: the second one is for another series, the third
\* one for the series of the first.
IeAgain ==
    /\ ie_pc = "done"
    /\ ie_run < 3
    /\ ie_run' = ie_run + 1
    /\ IF ie_run = 1 THEN ie_src' \in IeOtherSeries ELSE ie_src' = ie_hist
    /\ ie_pc' = "history"
    /\ ie_loc' = NoData
    /\ UNCHANGED << ie_engine, ie_hist, ie_outs, ie_store, outsideEngine >>

NextIndicators ==
    IeHistory \/ IeRsi \/ IeMacd \/ IeData \/ IeMerge \/ IeAgain

InitIndicators ==
    /\ InitStore
    /\ InitRead /\ InitBackup /\ InitSimple /\ InitPool /\ InitSortOff
    /\ probeIn = << >>
    /\ probeOut = Pending
    /\ IeInit

SpecIndicators == InitIndicators /\ [][NextIndicators]_vars

\* ------------------------------------------------ get_stocks and its sort

\* The metrics merged for a symbol: plain ones, and those of a series too
\* short for the indicators, whose rsi and macd are nan.
SsMetrics ==
    { [price |-> 101, rsi |-> 71, macd |-> 2, volume |-> 12],
      [price |-> 102, rsi |-> NaN, macd |-> NaN, volume |-> 11],
      [price |-> 100, rsi |-> 29, macd |-> 1, volume |-> 13] }

SsEntry(symbol, m) ==
    [StockData(symbol, [sec |-> 1, us |-> 0]) EXCEPT
        !.price = m.price, !.rsi = m.rsi, !.macd = m.macd,
        !.macd_signal = m.macd, !.macd_hist = FloatSub(m.macd, m.macd),
        !.volume = m.volume]

SsEntries ==
    { SsEntry(SsSymbols[k], m) : k \in 1..Len(SsSymbols), m \in SsMetrics }

\* The stores: at most one entry per symbol, in any order of insertion.
SsStores ==
    UNION { { st \in [1..n -> SsEntries] :
                \A i, j \in 1..n : i # j => st[i].symbol # st[j].symbol } :
            n \in 0..Len(SsSymbols) }

\* The values of the two query parameters: absent, or a text.
SsSortBy == {None, "symbol", "price", "rsi", "macd", "volume", "macd_hist"}
SsSortOrder == {None, "asc", "desc", "DESC"}

\* str.lower() on the texts of SsSortOrder.
lower(text) == IF text = "DESC" THEN "desc" ELSE text

\* `request.args.get(name, default)`
ArgsGet(value, default) == IF value = None THEN default ELSE value

SortedFields == {"symbol", "price", "rsi", "macd", "volume"}

\* get_stocks: the dicts of the entries, sorted as the request asks.
get_stocks(args) ==
    LET sort_by == ArgsGet(args.sort_by, "symbol")
        sort_order == ArgsGet(args.sort_order, "asc")
        stocks_dicts == [i \in 1..Len(ss_store) |-> to_dict(ss_store[i])]
        reverse == lower(sort_order) = "desc"
    IN  /\ ss_args' = args
        /\ ss_resp' = IF sort_by \in SortedFields
                      THEN ListSort(stocks_dicts, sort_by, reverse)
                      ELSE stocks_dicts
        /\ UNCHANGED << ss_store, outsideSort >>

NextSnapshot ==
    \E sort_by \in SsSortBy, sort_order \in SsSortOrder :
        get_stocks([sort_by |-> sort_by, sort_order |-> sort_order])

InitSnapshot ==
    /\ InitStore
    /\ InitRead /\ InitBackup /\ InitSimple /\ InitPool /\ InitEngineOff
    /\ probeIn = << >>
    /\ probeOut = Pending
    /\ ss_store \in SsStores
    /\ ss_args = NoData
    /\ ss_resp = NoData

SpecSnapshot == InitSnapshot /\ [][NextSnapshot]_vars

\* ------------------------------------------------- macd_crossover on floats

\* Floats in tenths: 0.9, 1.0, 1.1, 1.2, 1.3, 2.0, and NaN.
CrossVals == {9, 10, 11, 12, 13, 20, NaN}

CrossEntry(in) ==
    [StockData(<<"X", NS>>, [sec |-> 0, us |-> 0]) EXCEPT
        !.prev_macd = in[1], !.prev_signal = in[2],
        !.macd = in[3], !.macd_signal = in[4]]

InitCrossover ==
    /\ InitStore
    /\ InitOthers
    /\ probeIn \in CrossVals \X CrossVals \X CrossVals \X CrossVals
    /\ probeOut = Pending

ApplyCrossover ==
    /\ probeOut = Pending
    /\ probeOut' = macd_crossover(CrossEntry(probeIn))
    /\ UNCHANGED << progVars, histVars, probeIn, otherVars >>

SpecCrossover == InitCrossover /\ [][ApplyCrossover]_vars

\* --------------------------------- ensure_nse_symbol and the symbol lists

\* The parts a symbol under test is made of: a name, the suffix, the suffix
\* in lower case and the suffix of another exchange.
SyParts == {"TCS", NS, ".ns", ".BO"}

\* The symbols under test: the empty text, ".NS" alone, names with and
\* without a suffix, with the suffix twice or not at the end.
SySymbols == UNION { [1..n -> SyParts] : n \in 0..3 }

\* The rows the table pelago can hold.
SyRows ==
    { << >>, << <<"TCS">> >>, << <<"TCS", NS>> >>, << <<"TCS", ".ns">> >>,
      << <<"INFY", ".BO">>, <<"TCS", NS>> >>, << << >> >> }

SyDbOutcomes ==
    { [kind |-> "noconn"], [kind |-> "raise"] }
      \cup { [kind |-> "rows", rows |-> r] : r \in SyRows }

\* The two modules that define fetch_stocks_from_db.
SyModules == {"app", "stock_analyzer"}

InitSymbols ==
    /\ InitStore
    /\ InitOthers
    /\ probeIn \in SySymbols \X SyDbOutcomes \X SyModules
    /\ probeOut = NoData

\* ensure_nse_symbol on the symbol, once and on its own result, and
\* fetch_stocks_from_db of the module on the database.
ApplySymbols ==
    /\ probeOut = NoData
    /\ probeOut' =
          [once |-> ensure_nse_symbol(probeIn[1]),
           twice |-> ensure_nse_symbol(ensure_nse_symbol(probeIn[1])),
           list |-> IF probeIn[3] = "app"
                    THEN fetch_stocks_from_db(probeIn[2])
                    ELSE PlFetchStocksFromDb(probeIn[2])]
    /\ UNCHANGED << progVars, histVars, probeIn, otherVars >>

SpecSymbols == InitSymbols /\ [][ApplySymbols]_vars

\* ------------------------------------------------------------- rsi_signal

\* The RSI values under test: nan, the values of the scale and one beyond
\* each end of it.
RsiValues == {NaN} \cup (-1..101)

\* The two modules that define StockData.
RsiModules == {"app", "stock_analyzer"}

InitRsiSignal ==
    /\ InitStore
    /\ InitOthers
    /\ probeIn \in RsiValues \X RsiModules
    /\ probeOut = Pending

\* The property rsi_signal of a StockData whose rsi is the value.
ApplyRsiSignal ==
    /\ probeOut = Pending
    /\ LET now == [sec |-> 0, us |-> 0]
           self == IF probeIn[2] = "app"
                   THEN [StockData(<<"X", NS>>, now) EXCEPT !.rsi = probeIn[1]]
                   ELSE [PlStockData(<<"X", NS>>, now) EXCEPT
                            !.rsi = probeIn[1]]
       IN  probeOut' = rsi_signal(self)
    /\ UNCHANGED << progVars, histVars, probeIn, otherVars >>

SpecRsiSignal == InitRsiSignal /\ [][ApplyRsiSignal]_vars

\* ------------------------------------------------------------------ claims

\* Thread t takes the step.
Moved(t) == pc'[t] # pc[t] \/ fld'[t] # fld[t]

MergePcs == {"err", "chk", "ins", "ref", "hist1", "hist2", "write"}

\* Thread t executes the last statement of a successful merge.
CompletesMerge(t) ==
    pc[t] = "write" /\ fld[t] = Len(MergeFields) /\ fld'[t] = 0

\* Thread t ends its cycle.
EndsCycle(t) == pc[t] # "idle" /\ pc'[t] = "idle"

\* The result thread t is merging comes from a cycle that is not newer than
\* the cycle of the result the entry already holds.
StaleNow(t) ==
    \/ pc[t] = "err" /\ cyc[t] <= storedSeq[sym(t)]
    \/ pc[t] \in {"ins", "ref", "hist1", "hist2", "write"} /\ stale[t]

\* The entry e holds every field of the successful result d.
HoldsResult(e, d) ==
    /\ e.price = d.price
    /\ e.rsi = d.rsi
    /\ e.macd = d.macd
    /\ e.macd_signal = d.macd_signal
    /\ e.macd_hist = d.macd_hist
    /\ e.volume = d.volume
    /\ e.timestamp = strptime(d.timestamp)
    /\ e.error = None

MetricFields ==
    { "symbol", "price", "rsi", "macd", "macd_signal", "macd_hist", "volume",
      "timestamp", "prev_macd", "prev_signal" }

\* C1: a merge of a result whose cycle is not newer than the cycle of the
\* result already stored for the symbol changes nothing in the store.
C1_StaleMergeIsNoOp ==
    [][\A t \in Threads :
         (Moved(t) /\ StaleNow(t)) => stock_data_store' = stock_data_store]_vars

\* C2: for every symbol, the cycle of the result the entry holds never
\* decreases: results are applied in non-decreasing cycle order.
C2_CycleOrderNonDecreasing ==
    [][\A s \in Symbols : storedSeq'[s] >= storedSeq[s]]_vars

\* C3: when a successful merge completes, the entry's prev_macd/prev_signal
\* are the macd/macd_signal of the preceding successful merge of the symbol,
\* its current fields are the new result and its error is empty, also when
\* another cycle merges the same symbol at the same time.
C3_SuccessShiftsPrevious ==
    [][\A t \in Threads :
         CompletesMerge(t) =>
            LET s == sym(t)
                e == stock_data_store'[s]
            IN  /\ done[s].good =>
                      /\ e.prev_macd = done[s].macd
                      /\ e.prev_signal = done[s].signal
                /\ HoldsResult(e, data[t])]_vars

\* C4: a failed result changes nothing but the error field of its symbol's
\* entry: no entry appears or disappears, every other field of every entry
\* and the error of every other entry keep their values, and the entry of
\* the symbol, when there is one, carries the error beside its metrics.
C4_FailureChangesOnlyError ==
    [][\A t \in Threads :
         (pc[t] = "err" /\ Moved(t)) =>
            /\ DOMAIN stock_data_store' = DOMAIN stock_data_store
            /\ \A s \in DOMAIN stock_data_store :
                  /\ \A f \in MetricFields :
                        stock_data_store'[s][f] = stock_data_store[s][f]
                  /\ s # sym(t) =>
                        stock_data_store'[s].error = stock_data_store[s].error
                  /\ s = sym(t) =>
                        stock_data_store'[s].error = data[t].error]_vars

\* C4 witness: an entry holds the metrics of a successful result together
\* with the error of a later failure.
C4_Witness ==
    \E s \in DOMAIN stock_data_store :
        /\ stock_data_store[s].error # None
        /\ stock_data_store[s].price # 0
        /\ done[s].last = "fail"

\* C5: every failure is recorded in the error field of its symbol, whether
\* or not the store already has an entry for the symbol.
C5_EveryFailureRecorded ==
    [][\A t \in Threads :
         (pc[t] = "err" /\ Moved(t)) =>
            /\ sym(t) \in DOMAIN stock_data_store'
            /\ stock_data_store'[sym(t)].error = data[t].error]_vars

\* No thread is between the fetch and the end of the merge of symbol s.
Quiescent(s) == \A u \in Threads : ~(pc[u] \in MergePcs /\ sym(u) = s)

\* C6: the error of a symbol is set exactly when the most recent completed
\* fetch/compute of the symbol failed.
C6_ErrorIffLastFailed ==
    \A s \in Symbols :
        Quiescent(s) =>
            (done[s].last = "fail"
                <=> (Stored(s) /\ stock_data_store[s].error # None))

\* C7: the steps that merge a result of one symbol, failed or successful,
\* leave the entry of every other symbol as it is, and a successful merge
\* of a cycle in which another symbol has failed leaves its whole result in
\* the entry (unless another cycle wrote the entry meanwhile).
C7_FailureIsolation ==
    [][\A t \in Threads :
         /\ (pc[t] \in MergePcs /\ Moved(t)) =>
               \A b \in Symbols \ {sym(t)} :
                  /\ Stored(b) <=> b \in DOMAIN stock_data_store'
                  /\ Stored(b) => stock_data_store'[b] = stock_data_store[b]
         /\ (CompletesMerge(t) /\ hadFail[t] /\ ~dirty[t]) =>
               HoldsResult(stock_data_store'[sym(t)], data[t])]_vars

\* C7 witness: the only cycle so far has ended, one of its symbols failed and
\* the entry of the other holds the successful result of the cycle.
C7_Witness ==
    \E t \in Threads : \E a, b \in Symbols :
        /\ a # b
        /\ cycleCounter = 1
        /\ pc[t] = "idle"
        /\ hadFail[t]
        /\ done[a].last = "fail"
        /\ done[b].last = "ok"
        /\ Stored(b)
        /\ stock_data_store[b].macd = done[b].macd
        /\ stock_data_store[b].price # 0

\* C8: a failure never ends the cycle: after a failed symbol the thread goes
\* on to the next symbol of its list, the symbols fetched so far are always
\* the list up to the current position, and a cycle ends only when every
\* symbol of its list has been fetched.
C8_CycleAttemptsEverySymbol ==
    [][\A t \in Threads :
         /\ (pc[t] = "err" /\ Moved(t) /\ idx[t] < Len(stocks[t])) =>
               (pc'[t] = "fetch" /\ idx'[t] = idx[t] + 1
                  /\ stocks'[t] = stocks[t])
         /\ Len(attempted[t]) <= Len(stocks[t])
         /\ attempted[t] = SubSeq(stocks[t], 1, Len(attempted[t]))
         /\ EndsCycle(t) => attempted[t] = stocks[t]]_vars

\* C8 witness: a cycle over two symbols has ended after both of them failed.
C8_Witness ==
    \E t \in Threads :
        /\ cycleCounter = 1
        /\ pc[t] = "idle"
        /\ hadFail[t]
        /\ Cardinality(Symbols) = 2
        /\ \A s \in Symbols : done[s].last = "fail"

\* The label of C9's priority list for the inputs (pm, ps, m, s).
C9_Label(pm, ps, m, s) ==
    CASE FloatLe(pm, ps) /\ FloatGt(m, s) -> Bullish
      [] ~(FloatLe(pm, ps) /\ FloatGt(m, s))
           /\ FloatGe(pm, ps) /\ FloatLt(m, s) -> Bearish
      [] ~(FloatLe(pm, ps) /\ FloatGt(m, s))
           /\ ~(FloatGe(pm, ps) /\ FloatLt(m, s))
           /\ FloatGt(m, s) -> Above
      [] ~(FloatLe(pm, ps) /\ FloatGt(m, s))
           /\ ~(FloatGe(pm, ps) /\ FloatLt(m, s))
           /\ ~FloatGt(m, s) /\ FloatLt(m, s) -> Below
      [] OTHER -> Dash

\* C9: the crossover label is the one the priority list Bullish, Bearish,
\* Above, Below, None gives for (prev_macd, prev_signal, macd, signal); it is
\* one of the five labels; (1.0, 1.2, 1.3, 1.1) gives Bullish and
\* (2.0, 1.0, 0.9, 1.0) gives Bearish.
C9_CrossoverPriority ==
    probeOut # Pending =>
        /\ probeOut \in {Bullish, Bearish, Above, Below, Dash}
        /\ probeOut = C9_Label(probeIn[1], probeIn[2], probeIn[3], probeIn[4])
        /\ probeIn = <<10, 12, 13, 11>> => probeOut = Bullish
        /\ probeIn = <<20, 10, 9, 10>> => probeOut = Bearish
        /\ (probeIn[3] # NaN /\ probeIn[3] = probeIn[4]) => probeOut = Dash

\* C9 witness: the function has been applied to (1.0, 1.2, 1.3, 1.1).
C9_Witness == probeIn = <<10, 12, 13, 11>> /\ probeOut = Bullish

\* C10: when the first successful merge of a symbol completes, the symbol's
\* crossover label is None ("-").
C10_FirstMergeLabelNone ==
    [][\A t \in Threads :
         (CompletesMerge(t) /\ ~done[sym(t)].good) =>
            macd_crossover(stock_data_store'[sym(t)]) = Dash]_vars

\* The result of a successful fetch.
IsResult(d) == "price" \in DOMAIN d

\* C12: every result of a fetch and every store entry after a merge has
\* completed satisfies macd_hist = macd - macd_signal.
C12_HistIsMacdMinusSignal ==
    /\ \A t \in Threads :
          IsResult(data[t]) =>
             data[t].macd_hist = FloatSub(data[t].macd, data[t].macd_signal)
    /\ \A s \in Symbols :
          (Stored(s) /\ Quiescent(s) /\ done[s].good) =>
             stock_data_store[s].macd_hist =
                FloatSub(stock_data_store[s].macd,
                         stock_data_store[s].macd_signal)

\* The metrics of entry e are those of the one result d.
SameMetrics(e, d) ==
    /\ e.price = d.price
    /\ e.rsi = d.rsi
    /\ e.macd = d.macd
    /\ e.macd_signal = d.macd_signal
    /\ e.macd_hist = d.macd_hist
    /\ e.volume = d.volume
    /\ e.timestamp = strptime(d.timestamp)

\* C15: an idle thread can start a cycle whatever the other thread is doing,
\* and with cycles overlapping freely the store stays correct: once the
\* merges of a symbol are over, its entry holds the metrics of one result.
C15_OverlapKeepsStoreCorrect ==
    /\ \A t \in Threads :
          (pc[t] = "idle" /\ fetches < MaxFetches) => ENABLED StartCycle(t)
    /\ \A s \in Symbols :
          (Stored(s) /\ Quiescent(s) /\ done[s].good) =>
             \E out \in FetchOutcomes :
                /\ out.kind = "hist"
                /\ SameMetrics(stock_data_store[s], fetch_stock_data(s, out))

\* C20: no step removes an entry from the store, and an entry appears only
\* in the merge of a successful result of its symbol, when no successful
\* merge of the symbol has completed before; this holds across cycles and
\* for symbols that are not in the list of a later cycle.
C20_StoreOnlyGrows ==
    [][/\ DOMAIN stock_data_store \subseteq DOMAIN stock_data_store'
       /\ \A s \in DOMAIN stock_data_store' \ DOMAIN stock_data_store :
             \E t \in Threads :
                /\ pc[t] = "ins"
                /\ Moved(t)
                /\ sym(t) = s
                /\ IsResult(data[t])
                /\ ~done[s].good]_vars

\* C20 witness: a cycle whose list lacks a symbol runs after the merge that
\* stored the symbol, and the entry is still there.
C20_Witness ==
    \E s \in DOMAIN stock_data_store : \E t \in Threads :
        /\ storedSeq[s] > 0
        /\ cyc[t] > storedSeq[s]
        /\ \A k \in 1..Len(stocks[t]) : stocks[t][k] # s
        /\ attempted[t] # << >>

\* C17: a cycle leaves Idle only by obtaining its symbol list (not empty,
\* nothing fetched yet); a task starts only for the next symbol of that
\* list, so the tasks started are always the list up to the current
\* position; the cycle goes back to Idle only when a task has been started
\* for every listed symbol; and every cycle that starts goes back to Idle.
C17_CyclePhases ==
    /\ [][/\ (pc["bg"] = "idle" /\ pc'["bg"] # "idle") =>
                /\ pc'["bg"] = "fetch"
                /\ stocks'["bg"] # << >>
                /\ idx'["bg"] = 1
                /\ attempted'["bg"] = << >>
          /\ attempted'["bg"] # attempted["bg"] =>
                \/ attempted'["bg"] = << >>
                \/ /\ pc["bg"] = "fetch"
                   /\ stocks["bg"] # << >>
                   /\ attempted'["bg"] = SubSeq(stocks["bg"], 1, idx["bg"])
          /\ EndsCycle("bg") =>
                /\ pc["bg"] \in {"err", "write"}
                /\ attempted["bg"] = stocks["bg"]]_vars
    /\ (pc["bg"] # "idle") ~> (pc["bg"] = "idle")

\* C17 witness: a cycle over the two default symbols has gone back to Idle
\* after a merge of each.
C17_Witness ==
    /\ pc["bg"] = "idle"
    /\ cycleCounter = 1
    /\ \A s \in Symbols : done[s].last # "none"

OneResult(d) ==
    \E out \in FetchOutcomes :
        /\ out.kind = "hist"
        /\ d["price"] = out.close
        /\ d["rsi"] = out.rsi
        /\ d["macd"] = out.macd
        /\ d["macd_signal"] = out.signal
        /\ d["macd_hist"] = FloatSub(out.macd, out.signal)
        /\ d["volume"] = out.volume
        /\ d["timestamp"] = strftime(out.now)

\* C13: a get_stocks that runs while the background thread merges does not
\* fail, and every dict of its response carries the fields of one completed
\* merge.
C13_ReadersSeeWholeMerges ==
    /\ rpc # "failed"
    /\ rpc = "done" => \A s \in DOMAIN stocks_list : OneResult(stocks_list[s])


\* C11: every run of load_todays_stocks ends with a symbol list that is not
\* empty and a worker started for it: at least one task is dispatched,
\* whatever the database did.
C11_SymbolListNeverEmpty ==
    [][bk_cycles' # bk_cycles =>
          /\ Len(bk_workers') >= 1
          /\ \A k \in 1..Len(bk_workers') : bk_workers'[k].st = "running"]_vars

\* C19: every click on the refresh button starts one refresh cycle in the
\* same step, whether auto-refresh is on or off and whatever the time since
\* the last timer-driven cycle, and every worker of the cycle is started.
C19_ManualTriggerStartsCycle ==
    [][bk_clicks' # bk_clicks =>
          /\ bk_cycles' = bk_cycles + 1
          /\ \A k \in 1..Len(bk_workers') : bk_workers'[k].st = "running"]_vars


\* C14: at every moment at most MAX_WORKERS fetch tasks are running, also
\* right after a new cycle has started over the tasks of the previous one.
C14_AtMostPoolSizeTasks == Cardinality(SmRunning) <= MAX_WORKERS


\* C16: a worker that is in flight when a new cycle starts is not cancelled:
\* it runs to its end and its result reaches the merge, so a worker that
\* has fetched its symbol never ends without having emitted its result.
C16_InFlightTasksComplete ==
    [][\A w \in PlIds :
          (pl_task[w].st \in {"ready", "failing"}
             /\ pl_task'[w].st = "finished") =>
                pl_task'[w].emitted]_vars

\* The computation has assigned rsi / has built its data.
HasRsi == "rsi" \in DOMAIN ie_loc
HasData == ie_pc \in {"merge", "done"} /\ "rsi" \in DOMAIN last(ie_outs)

\* C21: for every non-empty series of closes the computed RSI is a number
\* between 0 and 100, never NaN or infinite.
C21_RsiInRange ==
    HasRsi =>
        /\ isfinite(ie_loc.rsi)
        /\ FLessEq(FInt(0), ie_loc.rsi)
        /\ FLessEq(ie_loc.rsi, FInt(100))

\* The average gain and loss over the 14 samples that end the series.
AvgGain(close) == last(RollingMean(WherePositive(Diff(close)), 14))
AvgLoss(close) == last(RollingMean(Negated(WhereNegative(Diff(close))), 14))

\* C22: when the average loss over the 14-sample window is 0, the RSI of
\* StockFetcher.run is exactly 100, also when the average gain is 0.
C22_ZeroLossGivesHundred ==
    (HasRsi /\ ie_engine = "run" /\ AvgLoss(ie_src) = FInt(0)) =>
        ie_loc.rsi = FInt(100)

IsFlat(close) == \A i \in 1..Len(close) : close[i] = close[1]

\* C23: a flat series of at least 27 samples gives RSI = 50 and
\* macd_hist = 0 in StockFetcher.run.
C23_FlatSeries ==
    (HasData /\ ie_engine = "run" /\ Len(ie_src) >= 27 /\ IsFlat(ie_src)) =>
        /\ last(ie_outs).rsi = FInt(50)
        /\ last(ie_outs).macd_hist = FInt(0)

\* C24: a series of 1 to 26 samples makes the computation end with an error,
\* and nothing computed from it is merged into the store.
C24_ShortSeriesFails ==
    [][(Len(ie_src) >= 1 /\ Len(ie_src) < 27) =>
          /\ ie_store' = ie_store
          /\ (ie_pc = "data" => "error" \in DOMAIN last(ie_outs'))]_vars

RECURSIVE EmaOfClose(_, _, _)
EmaOfClose(close, span, i) ==
    IF i = 1 THEN close[1]
    ELSE FAdd(FMul(close[i], Rat(2, span + 1)),
              FMul(EmaOfClose(close, span, i - 1),
                   FMinus(FInt(1), Rat(2, span + 1))))

MacdAt(close, i) ==
    FMinus(EmaOfClose(close, 12, i), EmaOfClose(close, 26, i))

RECURSIVE SignalAt(_, _)
SignalAt(close, i) ==
    IF i = 1 THEN MacdAt(close, 1)
    ELSE FAdd(FMul(MacdAt(close, i), Rat(2, 10)),
              FMul(SignalAt(close, i - 1), FMinus(FInt(1), Rat(2, 10))))

\* C26: the reported macd and signal are the values of the unadjusted
\* exponential recurrence (spans 12, 26 and 9) at the last sample.
C26_MacdFollowsRecurrence ==
    (HasData /\ Len(ie_src) >= 27) =>
        /\ last(ie_outs).macd = MacdAt(ie_src, Len(ie_src))
        /\ last(ie_outs).macd_signal = SignalAt(ie_src, Len(ie_src))

\* The 'stocks' of the response are in the order asked for: no dict comes
\* before one whose key is less (greater, when descending).
InOrder(resp, sort_by, descending) ==
    \A i, j \in 1..Len(resp) :
        i < j =>
            IF descending THEN ~KeyLess(resp[i], resp[j], sort_by)
            ELSE ~KeyLess(resp[j], resp[i], sort_by)

\* C27: the response of get_stocks has exactly one dict per entry of the
\* store and is ordered by the field of the request, ascending or, when
\* asked, descending; the store is as it was.
C27_SnapshotSorted ==
    (ss_args # NoData /\ ArgsGet(ss_args.sort_by, "symbol") \in SortedFields)
    =>
        /\ Len(ss_resp) = Len(ss_store)
        /\ \A i \in 1..Len(ss_store) :
              \E j \in 1..Len(ss_resp) : ss_resp[j] = to_dict(ss_store[i])
        /\ InOrder(ss_resp, ArgsGet(ss_args.sort_by, "symbol"),
                   lower(ArgsGet(ss_args.sort_order, "asc")) = "desc")

\* A step of the request in get_stock.
GetStockStep == rpc' # rpc \/ rfld' # rfld

\* C28: get_stock looks the normalised symbol up; it answers not found
\* exactly when the store has no entry for it, else with the entry as it is
\* stored, and it creates or changes no entry.
C28_GetOneReturnsEntry ==
    [][GetStockStep =>
          /\ stock_data_store' = stock_data_store
          /\ rpc = "idle" =>
                /\ rcur' = ensure_nse_symbol(rarg')
                /\ (rpc' = "notfound") =
                      (ensure_nse_symbol(rarg') \notin DOMAIN stock_data_store)
          /\ rpc' = "found" =>
                /\ rdict'["symbol"] = ensure_nse_symbol(rarg)
                /\ rdict' \in rsnaps']_vars

\* C29: once refresh_data has called stop() on a worker, no signal of that
\* worker, data or error, is handled by update_stock_data or handle_error.
C29_StoppedWorkerNotApplied ==
    [][Len(pl_events') < Len(pl_events) =>
          pl_task[Head(pl_events).worker]._is_running]_vars

\* C30: Bullish and Bearish mark only the merge in which the lines cross.
\* When a successful merge with macd > signal follows a successful merge
\* with macd > signal for the same symbol, whatever failed in between, the
\* label after it is Above (Below for macd < signal); a failed result leaves
\* the label as it is.
C30_CrossLabelOnlyAtCross ==
    [][\A t \in Threads :
         /\ CompletesMerge(t) =>
               LET s == sym(t)
                   e == stock_data_store'[s]
                   d == data[t]
               IN  /\ (/\ done[s].good
                       /\ FloatGt(done[s].macd, done[s].signal)
                       /\ FloatGt(d.macd, d.macd_signal)) =>
                          macd_crossover(e) = Above
                   /\ (/\ done[s].good
                       /\ FloatLt(done[s].macd, done[s].signal)
                       /\ FloatLt(d.macd, d.macd_signal)) =>
                          macd_crossover(e) = Below
         /\ (pc[t] = "err" /\ Moved(t) /\ Stored(sym(t))) =>
               macd_crossover(stock_data_store'[sym(t)]) =
                  macd_crossover(stock_data_store[sym(t)])]_vars


\* The GUI thread is handling a data_ready signal in this step.
HandlesData ==
    /\ pl_events # << >>
    /\ pl_events' = Tail(pl_events)
    /\ Head(pl_events).signal = "data_ready"

\* C31: in the pooled variant, after update_stock_data has handled a
\* result, the row of its symbol shows the values its StockData now holds
\* (price, rsi, macd, histogram, volume, crossover), also when the price has
\* not moved and when the row was showing "Error".
C31_RowShowsStockData ==
    [][HandlesData =>
         LET symbol == Head(pl_events).data.symbol
         IN  \E r \in 1..Len(pl_table') :
                /\ pl_table'[r].symbol = symbol
                /\ ~pl_table'[r].error
                /\ pl_table'[r].cells = PlCells(pl_stocks'[symbol])]_vars

\* This step is a run of _apply_rsi_sort: a timer of the sort fires or
\* the sort button is clicked.
SortStep ==
    \/ pl_timers' < pl_timers
    \/ pl_sort_rsi_ascending' # pl_sort_rsi_ascending

ShownSymbols(table) == { table[r].symbol : r \in 1..Len(table) }

\* The rows with a numeric RSI follow one another in the selected order.
RsiInOrder(table, ascending) ==
    \A i, j \in 1..Len(table) :
       (i < j /\ ~table[i].error /\ ~table[j].error) =>
          IF ascending THEN table[i].cells.rsi <= table[j].cells.rsi
          ELSE table[i].cells.rsi >= table[j].cells.rsi

\* C32: _apply_rsi_sort only reorders the table.  The symbols shown after it
\* are the symbols shown before it, rows whose RSI cell is not a number
\* ("Error") included, and the rows with a numeric RSI are in ascending or
\* descending RSI order as selected.
C32_SortOnlyReorders ==
    [][SortStep =>
         /\ ShownSymbols(pl_table') = ShownSymbols(pl_table)
         /\ Len(pl_table') = Len(pl_table)
         /\ RsiInOrder(pl_table', pl_sort_rsi_ascending')]_vars

\* The part of C32 about the rows with a numeric RSI.
C32_NumericRowsSorted ==
    [][(SortStep /\ \E r \in 1..Len(pl_table) : ~pl_table[r].error) =>
         /\ RsiInOrder(pl_table', pl_sort_rsi_ascending')
         /\ \A r \in 1..Len(pl_table) :
               ~pl_table[r].error =>
                  \E q \in 1..Len(pl_table') : pl_table'[q] = pl_table[r]]_vars

\* The GUI thread is handling a signal, data_ready or error_occurred.
HandlesSignal == pl_events # << >> /\ pl_events' = Tail(pl_events)

\* C33: in the pooled variant the table holds at most one row per symbol
\* after any sequence of data results, error results and sorts, and a
\* symbol that has delivered a data or error result since the last sort has
\* a row: the handled result leaves a row of its symbol, and no step but a
\* sort takes a symbol out of the table.  SpecPoolSlots has every sequence
\* of signals, SpecPool those of the workers of the pool.
C33_OneRowPerSymbol ==
    [][/\ \A i, j \in 1..Len(pl_table') :
             i # j => pl_table'[i].symbol # pl_table'[j].symbol
       /\ HandlesSignal =>
             LET e == Head(pl_events)
                 symbol == IF e.signal = "data_ready" THEN e.data.symbol
                           ELSE e.symbol
             IN  symbol \in ShownSymbols(pl_table')
       /\ ~SortStep => ShownSymbols(pl_table) \subseteq ShownSymbols(pl_table')
      ]_vars

\* C33 witness: both symbols have a row, one of them set to "Error", after
\* three signals or more have been handled and the sorts have run, the
\* last of them by a click.
C33_Witness ==
    /\ Len(pl_table) = 2
    /\ \E r \in 1..2 : pl_table[r].error
    /\ \E r \in 1..2 : ~pl_table[r].error
    /\ Len(pl_task) >= 3
    /\ pl_events = << >>
    /\ pl_timers = 0
    /\ ~pl_sort_rsi_ascending

\* C34: in the simple variant the status shows "Ready" with the progress
\* bar hidden only when no worker of the current cycle is still running.
C34_ReadyOnlyWhenIdle ==
    (sm_status = "Ready" /\ ~sm_progress.shown) => SmRunning = {}

\* The second part of C34, under SpecSimpleFair: after every refresh the
\* progress bar is eventually hidden again, also when every worker fails.
C34_BarEventuallyHidden == sm_progress.shown ~> ~sm_progress.shown

\* The worker of w ends with a result in this step.
Succeeds(w) ==
    /\ w \in SmRunning
    /\ sm_workers'[w] = "finished"
    /\ sm_progress'.value = 100

\* C35: in the simple variant every successful result is shown in the row
\* whose index is the position of its symbol in self.stocks, whatever the
\* order in which the workers of a cycle complete, and handling a result
\* never fails.
C35_ResultShownInItsRow ==
    [][\A w \in SmSymbols :
          Succeeds(w) =>
             /\ ~sm_crashed'
             /\ SmIndex(w) < Len(sm_table')
             /\ sm_table'[SmIndex(w) + 1] =
                   [name |-> SmStrip(w), kind |-> "data",
                    data |-> sm_stock_data'[w]]]_vars

\* Every worker of the cycle has ended and its result has been handled.
BkAllDelivered ==
    /\ bk_up
    /\ bk_workers # << >>
    /\ bk_events = << >>
    /\ \A k \in 1..Len(bk_workers) : bk_workers[k].st = "finished"

\* C36: in the database-backed variant, once all workers of a cycle have
\* delivered their result, update_complete has enabled the refresh button
\* again and hidden the progress bar, also when a worker delivered an error.
C36_RefreshCompletes == BkAllDelivered => (bk_btn /\ ~bk_progress)

\* The GUI thread handles a timeout of refresh_timer in this step.
HandlesTimeout ==
    /\ bk_up
    /\ bk_timer # TimerOff
    /\ bk_timer' # bk_timer
    /\ bk_auto' = bk_auto
    /\ bk_clicks' = bk_clicks

\* C37: while auto-refresh is off no cycle starts but by a manual trigger;
\* switching it on arms the timer with the configured interval, and while
\* it is on every timeout of the timer starts a cycle, so the cycles come
\* at that interval.
C37_AutoRefreshFollowsSwitch ==
    [][/\ (bk_up /\ bk_cycles' > bk_cycles /\ bk_clicks' = bk_clicks) => bk_auto
       /\ (~bk_auto /\ bk_auto') => bk_timer' = bk_now + refresh_interval
       /\ (HandlesTimeout /\ bk_auto) => bk_cycles' = bk_cycles + 1]_vars

\* The parts of C37 that do not depend on when a timeout is handled.
C37_NoTimerCycleWhileOff ==
    [][/\ (bk_up /\ bk_cycles' > bk_cycles /\ bk_clicks' = bk_clicks) => bk_auto
       /\ (~bk_auto /\ bk_auto') => bk_timer' = bk_now + refresh_interval
       /\ (bk_auto /\ ~bk_auto') => bk_timer' = TimerOff]_vars

\* `symbol.endswith('.NS')`
EndsWithNS(symbol) == Len(symbol) > 0 /\ symbol[Len(symbol)] = NS

\* C38: ensure_nse_symbol returns a symbol that ends in ".NS", returns a
\* symbol that already ends in ".NS" as it is, and applied to its own result
\* changes nothing; every symbol of the list fetch_stocks_from_db returns
\* ends in ".NS", on every return path of both modules.
C38_SymbolsEndInNS ==
    probeOut # NoData =>
        /\ EndsWithNS(probeOut.once)
        /\ EndsWithNS(probeIn[1]) => probeOut.once = probeIn[1]
        /\ ~EndsWithNS(probeIn[1]) => probeOut.once = probeIn[1] \o <<NS>>
        /\ probeOut.twice = probeOut.once
        /\ \A k \in 1..Len(probeOut.list) : EndsWithNS(probeOut.list[k])

\* C38 witness: the query of stock_analyzer.py raised and the list is the
\* default one, for a symbol that has the suffix in its middle only.
C38_Witness ==
    /\ probeOut # NoData
    /\ probeIn[1] = <<"TCS", NS, ".BO">>
    /\ probeOut.once = <<"TCS", NS, ".BO", NS>>
    /\ probeIn[2].kind = "raise"
    /\ probeIn[3] = "stock_analyzer"
    /\ probeOut.list = DEFAULT_STOCKS

\* C39: the RSI label is Overbought exactly when rsi >= 70, Oversold
\* exactly when rsi <= 30 and Neutral otherwise, the boundaries 70 and 30
\* included in Overbought and Oversold: one label for every rsi value.
C39_RsiLabel ==
    probeOut # Pending =>
        LET rsi == probeIn[1]
            high == rsi # NaN /\ rsi >= 70
            low == rsi # NaN /\ rsi <= 30
        IN  /\ probeOut \in {"Overbought", "Oversold", "Neutral"}
            /\ probeOut = "Overbought" <=> high
            /\ probeOut = "Oversold" <=> low
            /\ probeOut = "Neutral" <=> (~high /\ ~low)

\* C39 witness: the label of the boundary 70 in stock_analyzer.py.
C39_Witness ==
    /\ probeIn = <<70, "stock_analyzer">>
    /\ probeOut = "Overbought"

====
